---- MODULE Spec2Model ----
(***************************************************************************)
(* Model of the immunization audit dashboard core (src/app.js):            *)
(* record classification, readiness and data-quality scoring, the review   *)
(* ledger kept in localStorage, and the filter pipeline feeding the table. *)
(*                                                                         *)
(* JavaScript values are records [t, s, n]: t is the type tag, s the       *)
(* characters of a string (a sequence of one-character strings), n the     *)
(* value of a number.                                                      *)
(***************************************************************************)
EXTENDS Integers, Sequences, FiniteSets, TLC

VARIABLES
    rec,              \* the record handed to the classification functions
    out,              \* what the classification functions returned for rec
    records,          \* the record set handed to computeDataQualityScore
    score,            \* what computeDataQualityScore returned for records
    storage,          \* localStorage: key -> string value
    clock,            \* the wall clock read by new Date()
    lastCall,         \* history: the latest setReviewed call
    prevCall,         \* history: the setReviewed call before the latest
    lastSet,          \* history: doc id -> value of the latest setReviewed on it
    allRecords,       \* app.js:29
    filteredRecords,  \* app.js:30
    displayRecords,   \* app.js:31
    fromDate,         \* value of #fromDate
    toDate,           \* value of #toDate
    filterMissing,    \* value of #filterMissing
    filterAge,        \* value of #filterAge
    hideReviewed,     \* #toggleCompletedRows checked
    tableRows,        \* rows of #tbl tbody as last rendered
    badge,            \* text of #dqScoreValue
    strip,            \* counts shown in #severityStrip
    aiReport,         \* what #aiReportContent shows
    aiTimer,          \* app.js:3110, the timers of autoRunAI that are pending
    panel,            \* #recordPanel: open or not, its record, its review button
    call,             \* the arguments handed to a function called on its own
    ret               \* what that function returned

vars == <<rec, out, records, score, storage, clock, lastCall, prevCall, lastSet,
          allRecords, filteredRecords, displayRecords, fromDate, toDate,
          filterMissing, filterAge, hideReviewed, tableRows, badge, strip,
          aiReport, aiTimer, panel, call, ret>>

classifyVars == <<rec, out>>
scoreVars == <<records, score>>
ledgerVars == <<storage, clock, lastCall, prevCall, lastSet>>
uiVars == <<allRecords, filteredRecords, displayRecords, fromDate, toDate,
            filterMissing, filterAge, hideReviewed, tableRows, badge, strip,
            aiReport, aiTimer, panel>>
callVars == <<call, ret>>

----------------------------------------------------------------------------
(* Bounds *)

MaxOdd == 1      \* fields of a classified record holding null, "", " " or 0
MaxSet == 3      \* records in a set handed to computeDataQualityScore
MaxClock == 2    \* readings of the wall clock
MaxLot == 3      \* characters of a lot number handed to isNearTypo
MaxDominant == 200  \* administrations of the most used lot of a vaccine
MaxCsv == 2      \* records in an exported set
MaxUsage == 3   \* records in a set handed to the lot grouping

----------------------------------------------------------------------------
(* JavaScript values *)

Undefined == [t |-> "undefined", s |-> <<>>, n |-> 0]
Null == [t |-> "null", s |-> <<>>, n |-> 0]
Str(chars) == [t |-> "string", s |-> chars, n |-> 0]
Num(k) == [t |-> "number", s |-> <<>>, n |-> k]

\* ToBoolean: undefined, null, "" and 0 are falsy
Truthy(v) ==
    /\ v.t # "undefined"
    /\ v.t # "null"
    /\ ~(v.t = "string" /\ v.s = <<>>)
    /\ ~(v.t = "number" /\ v.n = 0)

Digits == <<"0", "1", "2", "3", "4", "5", "6", "7", "8", "9">>

RECURSIVE NatToChars(_)
NatToChars(k) ==
    IF k < 10 THEN <<Digits[k + 1]>>
    ELSE NatToChars(k \div 10) \o <<Digits[(k % 10) + 1]>>

\* String(v)
JSString(v) ==
    CASE v.t = "undefined" -> <<"u", "n", "d", "e", "f", "i", "n", "e", "d">>
      [] v.t = "null" -> <<"n", "u", "l", "l">>
      [] v.t = "number" -> NatToChars(v.n)
      [] OTHER -> v.s

IsSpace(c) == c = " "

RECURSIVE trimStart(_)
trimStart(chars) ==
    IF chars # <<>> /\ IsSpace(Head(chars)) THEN trimStart(Tail(chars)) ELSE chars

RECURSIVE trimEnd(_)
trimEnd(chars) ==
    IF chars # <<>> /\ IsSpace(chars[Len(chars)])
    THEN trimEnd(SubSeq(chars, 1, Len(chars) - 1))
    ELSE chars

\* String.prototype.trim
trim(chars) == trimEnd(trimStart(chars))

\* the characters the model uses, in UTF-16 code unit order
CharOrder == <<" ", "-", "0", "1", "2", "3", "4", "5", "6", "7", "8", "9", ":",
               "T", "V", "Z", "a", "b", "c", "d", "e", "f", "i", "l", "n", "o", "r", "s",
               "t", "u", "v", "x">>

CharCode(c) == CHOOSE i \in 1..Len(CharOrder) : CharOrder[i] = c

\* a < b on two strings: lexicographic on code units
RECURSIVE StrLess(_, _)
StrLess(a, b) ==
    IF b = <<>> THEN FALSE
    ELSE IF a = <<>> THEN TRUE
    ELSE IF Head(a) = Head(b) THEN StrLess(Tail(a), Tail(b))
    ELSE CharCode(Head(a)) < CharCode(Head(b))

Max(a, b) == IF a >= b THEN a ELSE b
Min(a, b) == IF a <= b THEN a ELSE b

----------------------------------------------------------------------------
(* Classification engine *)

READINESS_WEIGHTS ==
    << [field |-> "lot_number", weight |-> 25],
       [field |-> "ndc", weight |-> 25],
       [field |-> "expiration_date", weight |-> 10],
       [field |-> "vfc_status", weight |-> 15],
       [field |-> "funding_source", weight |-> 15],
       [field |-> "mobile", weight |-> 5],
       [field |-> "email", weight |-> 5] >>

\* the loop of computeReadiness: subtract the weight of every falsy field
RECURSIVE subtractWeights(_, _, _)
subtractWeights(r, i, acc) ==
    IF i > Len(READINESS_WEIGHTS) THEN acc
    ELSE subtractWeights(r, i + 1,
            IF ~Truthy(r[READINESS_WEIGHTS[i].field])
            THEN acc - READINESS_WEIGHTS[i].weight
            ELSE acc)

\* the date sanity check of computeReadiness
dateConflict(r) ==
    /\ Truthy(r.administered_date)
    /\ Truthy(r.expiration_date)
    /\ StrLess(JSString(r.expiration_date), JSString(r.administered_date))

\* computeReadiness without the Math.max / Math.min clamps
computeReadiness_unclamped(r) ==
    LET s == subtractWeights(r, 1, 100)
    IN  IF dateConflict(r) THEN s - 15 ELSE s

computeReadiness(r) ==
    LET s == subtractWeights(r, 1, 100)
        d == IF dateConflict(r) THEN Max(0, s - 15) ELSE s
    IN  Max(0, Min(100, d))

isEmpty(val) ==
    val = Undefined \/ val = Null \/ trim(JSString(val)) = <<>>

\* isCompleteRecord that forgets the last weighted field
isCompleteRecord_skipsLast(r) ==
    \A i \in 1..(Len(READINESS_WEIGHTS) - 1) : Truthy(r[READINESS_WEIGHTS[i].field])

isCompleteRecord(r) ==
    \A i \in 1..Len(READINESS_WEIGHTS) : Truthy(r[READINESS_WEIGHTS[i].field])

getSeverity(record) ==
    IF ~Truthy(record.vfc_status) \/ ~Truthy(record.funding_source) THEN "high"
    ELSE IF ~Truthy(record.race) \/ ~Truthy(record.ethnicity) THEN "medium"
    ELSE IF ~Truthy(record.mobile) \/ ~Truthy(record.email) THEN "low"
    ELSE "clean"

\* the severity function the source labels authoritative
getRecordSeverity(r) ==
    IF ~Truthy(r.vfc_status) /\ ~Truthy(r.funding_source) THEN "HIGH"
    ELSE IF ~Truthy(r.race) \/ ~Truthy(r.ethnicity) THEN "MEDIUM"
    ELSE IF ~Truthy(r.mobile) \/ ~Truthy(r.email) THEN "LOW"
    ELSE "CLEAN"

\* the row category highlight; "" when nothing is missing
riskClassFromRecord(r) ==
    LET highMissing ==
            \/ isEmpty(r.vaccine_name) \/ isEmpty(r.quantity) \/ isEmpty(r.units)
            \/ isEmpty(r.ndc) \/ isEmpty(r.lot_number) \/ isEmpty(r.expiration_date)
        mediumMissing ==
            \/ isEmpty(r.vfc_status) \/ isEmpty(r.funding_source)
            \/ isEmpty(r.race) \/ isEmpty(r.ethnicity)
        lowMissing == isEmpty(r.mobile) \/ isEmpty(r.email)
    IN  IF highMissing THEN "high"
        ELSE IF mediumMissing THEN "medium"
        ELSE IF lowMissing THEN "low"
        ELSE ""

SEVERITY == [HIGH |-> "high", MEDIUM |-> "medium", LOW |-> "low"]

issueIf(record, field, severity) ==
    IF ~Truthy(record[field]) THEN <<[field |-> field, severity |-> severity]>>
    ELSE <<>>

evaluateRecordSeverity(record) ==
    issueIf(record, "vfc_status", SEVERITY.HIGH)
    \o issueIf(record, "funding_source", SEVERITY.HIGH)
    \o issueIf(record, "race", SEVERITY.MEDIUM)
    \o issueIf(record, "ethnicity", SEVERITY.MEDIUM)
    \o issueIf(record, "mobile", SEVERITY.LOW)
    \o issueIf(record, "email", SEVERITY.LOW)

isRecordComplete(record) == Len(evaluateRecordSeverity(record)) = 0

----------------------------------------------------------------------------
(* Aggregation engine: data quality score *)

\* the local helper `missing` of computeDataQualityScore
missing(r, key) == ~Truthy(r[key]) \/ ~Truthy(Str(trim(JSString(r[key]))))

\* data.filter((r) => missing(r, k1) || missing(r, k2)).length
countMissing(data, keys) ==
    Cardinality({i \in 1..Len(data) : \E key \in keys : missing(data[i], key)})

weights == [vfc_status |-> 28, funding_source |-> 24, race |-> 14,
            ethnicity |-> 14, contact |-> 20]

\* Math.round(num / den) for den > 0: the nearest integer, halves upwards
roundDiv(num, den) == (2 * num + den) \div (2 * den)

\* penalty * n: every term of the penalty is a fraction over n = data.length.
\* For the set sizes of the model the double arithmetic of the code is exact
\* to well under the distance of any sum from a rounding boundary.
penaltyTimesN(data) ==
    weights.vfc_status * countMissing(data, {"vfc_status"})
    + weights.funding_source * countMissing(data, {"funding_source"})
    + weights.race * countMissing(data, {"race"})
    + weights.ethnicity * countMissing(data, {"ethnicity"})
    + weights.contact * countMissing(data, {"email", "mobile"})

computeDataQualityScore(data) ==
    LET n == Len(data)
    IN  IF n = 0 THEN 0
        ELSE Max(0, Min(100, roundDiv(100 * n - penaltyTimesN(data), n)))

\* the text updateDQScoreBadge writes into #dqScoreValue
updateDQScoreBadge(data) ==
    IF Len(data) = 0 THEN <<"-", "-">>
    ELSE NatToChars(computeDataQualityScore(data))

----------------------------------------------------------------------------
(* Review ledger (localStorage) *)

reviewedKey(docId) == <<"r", "e", "s", "o", "l", "v", "e", "d", ":">> \o docId
reviewedTsKey(docId) ==
    <<"r", "e", "s", "o", "l", "v", "e", "d", ":">> \o docId \o <<":", "t", "s">>

\* localStorage.getItem / setItem / removeItem
getItem(st, key) == IF key \in DOMAIN st THEN Str(st[key]) ELSE Null
setItem(st, key, value) ==
    [k \in DOMAIN st \cup {key} |-> IF k = key THEN value ELSE st[k]]
removeItem(st, key) == [k \in DOMAIN st \ {key} |-> st[k]]

\* new Date().toISOString() at clock reading now (1..9)
toISOString(now) ==
    <<"2", "0", "2", "6", "-", "0", "1", "-", "0">> \o NatToChars(now)

isReviewed(st, docId) == getItem(st, reviewedKey(docId)) = Str(<<"1">>)

getReviewedTimestamp(st, docId) == getItem(st, reviewedTsKey(docId))

\* setReviewed that keeps the old time stamp when one is stored
setReviewed_keepTs(st, docId, val, now) ==
    LET st1 == setItem(st, reviewedKey(docId), IF val THEN <<"1">> ELSE <<"0">>)
    IN  IF val
        THEN IF reviewedTsKey(docId) \in DOMAIN st1 THEN st1
             ELSE setItem(st1, reviewedTsKey(docId), toISOString(now))
        ELSE removeItem(st1, reviewedTsKey(docId))

\* the storage after setReviewed(docId, val) run at clock reading now
setReviewed(st, docId, val, now) ==
    LET st1 == setItem(st, reviewedKey(docId), IF val THEN <<"1">> ELSE <<"0">>)
    IN  IF val THEN setItem(st1, reviewedTsKey(docId), toISOString(now))
        ELSE removeItem(st1, reviewedTsKey(docId))

----------------------------------------------------------------------------
(* Records *)

Fields == {"doc_id", "administered_date", "lot_number", "ndc", "expiration_date",
           "vfc_status", "funding_source", "mobile", "email", "race", "ethnicity",
           "age"}

WeightedFields == {READINESS_WEIGHTS[i].field : i \in 1..Len(READINESS_WEIGHTS)}
SeverityFields == {"vfc_status", "funding_source", "race", "ethnicity", "mobile", "email"}
PlainFields == (WeightedFields \cup SeverityFields) \ {"expiration_date"}

Present == Str(<<"x">>)
Day(d) == Str(<<"2", "0", "2", "4", "-", "0", "1", "-", "0">> \o NatToChars(d))
DateValues == {Undefined, Day(1), Day(2)}
OddValues == {Null, Str(<<>>), Str(<<" ">>), Num(0)}

DocA == <<"a">>
DocATs == <<"a", ":", "t", "s">>
DocB == <<"b">>
DocC == <<"c">>
DocIds == {DocA, DocATs, DocB}

\* a record with every field filled in, administered before it expires
BaseRecord ==
    [f \in Fields |->
        CASE f = "doc_id" -> Str(DocA)
          [] f = "administered_date" -> Day(1)
          [] f = "expiration_date" -> Day(2)
          [] f = "age" -> Num(20)
          [] OTHER -> Present]

With(r, f, v) == [r EXCEPT ![f] = v]

\* the records handed to the classification functions: every field present
\* or absent, any order of the two dates, and up to MaxOdd fields holding
\* one of the other empty-looking values
OddAssignments ==
    UNION { [S -> OddValues] :
              S \in {T \in SUBSET (Fields \ {"doc_id", "age"}) :
                        Cardinality(T) <= MaxOdd} }

RecordDomain ==
    { [f \in Fields |->
          IF f \in DOMAIN ov THEN ov[f]
          ELSE IF f = "doc_id" THEN Str(DocA)
          ELSE IF f = "administered_date" THEN adm
          ELSE IF f = "expiration_date" THEN exp
          ELSE IF f = "age" THEN Num(20)
          ELSE base[f]] :
        base \in [PlainFields -> {Undefined, Present}],
        adm \in DateValues, exp \in DateValues, ov \in OddAssignments }

\* the record sets handed to computeDataQualityScore are drawn from these
AllMissing ==
    [f \in Fields |-> IF f \in SeverityFields THEN Undefined ELSE BaseRecord[f]]

ScoreCatalog ==
    { BaseRecord, AllMissing,
      With(BaseRecord, "vfc_status", Undefined),
      With(BaseRecord, "funding_source", Str(<<>>)),
      With(BaseRecord, "race", Null),
      With(BaseRecord, "ethnicity", Undefined),
      With(BaseRecord, "email", Undefined),
      With(BaseRecord, "mobile", Str(<<" ">>)),
      With(With(BaseRecord, "email", Undefined), "mobile", Undefined),
      With(BaseRecord, "race", Num(0)) }

RecordSets == UNION { [1..k -> ScoreCatalog] : k \in 0..MaxSet }

----------------------------------------------------------------------------
(* Idle values of the parts a specification does not exercise *)

NoResult == [called |-> FALSE, severity |-> "", readiness |-> 0,
             complete |-> FALSE, issues |-> <<>>]
NoScore == [called |-> FALSE, value |-> 0]
NoArgs == <<>>
NoReturn == [called |-> FALSE]
NoCall == [called |-> FALSE, docId |-> <<>>, val |-> FALSE, at |-> 0]
NoPanel == [open |-> FALSE, docId |-> Undefined, button |-> FALSE]
NoStrip == [empty |-> TRUE, high |-> 0, medium |-> 0, low |-> 0, clean |-> 0]
EmptyStorage == [k \in {} |-> <<>>]

ClassifyIdle == rec = BaseRecord /\ out = NoResult
ScoreIdle == records = <<>> /\ score = NoScore
CallIdle == call = NoArgs /\ ret = NoReturn
LedgerIdle ==
    /\ storage = EmptyStorage
    /\ clock = 1
    /\ lastCall = NoCall
    /\ prevCall = NoCall
    /\ lastSet = [d \in DocIds |-> FALSE]
UiIdle ==
    /\ allRecords = <<>>
    /\ filteredRecords = <<>>
    /\ displayRecords = <<>>
    /\ fromDate = <<>>
    /\ toDate = <<>>
    /\ filterMissing = "all"
    /\ filterAge = "all"
    /\ hideReviewed = FALSE
    /\ tableRows = <<>>
    /\ badge = <<>>
    /\ strip = NoStrip
    /\ aiReport = "none"
    /\ aiTimer = 0
    /\ panel = NoPanel

----------------------------------------------------------------------------
(* Table, badge, severity strip and insights panel *)

IsDigit(c) == c \in {"0", "1", "2", "3", "4", "5", "6", "7", "8", "9"}

\* the strings new Date(s) accepts in the model: YYYY-MM-DD, alone or
\* followed by T and a UTC time of day
isISODate(chars) ==
    /\ Len(chars) >= 10
    /\ \A i \in {1, 2, 3, 4, 6, 7, 9, 10} : IsDigit(chars[i])
    /\ chars[5] = "-" /\ chars[8] = "-"
    /\ Len(chars) > 10 => chars[11] = "T"

\* the instant of an accepted date string, as digits YYYYMMDDhhmmss
\* (a date without time of day is midnight UTC); instants compare as strings
RECURSIVE padZeros(_, _)
padZeros(chars, len) == IF Len(chars) >= len THEN chars ELSE padZeros(chars \o <<"0">>, len)

instantOf(chars) == padZeros(SelectSeq(chars, IsDigit), 14)

\* parseAdminDate: null (here <<>>) for a falsy or unparseable value
parseAdminDate(value) ==
    IF ~Truthy(value) THEN <<>>
    ELSE IF isISODate(trim(JSString(value))) THEN instantOf(trim(JSString(value)))
    ELSE <<>>

\* Number(v): [nan, n]; digit strings and the empty string are numbers
RECURSIVE digitsValue(_, _)
digitsValue(chars, acc) ==
    IF chars = <<>> THEN acc
    ELSE digitsValue(Tail(chars), 10 * acc + (CharCode(Head(chars)) - CharCode("0")))

Number(v) ==
    CASE v.t = "number" -> [nan |-> FALSE, n |-> v.n]
      [] v.t = "null" -> [nan |-> FALSE, n |-> 0]
      [] v.t = "undefined" -> [nan |-> TRUE, n |-> 0]
      [] OTHER ->
           IF \A i \in 1..Len(trim(v.s)) : IsDigit(trim(v.s)[i])
           THEN [nan |-> FALSE, n |-> digitsValue(trim(v.s), 0)]
           ELSE [nan |-> TRUE, n |-> 0]

\* String(x ?? "")
stringOrEmpty(v) == IF v = Undefined \/ v = Null THEN <<>> ELSE JSString(v)

\* the comparator of renderTable's sort returns a negative number
sortsBefore(a, b) ==
    LET da == parseAdminDate(a.administered_date)
        db == parseAdminDate(b.administered_date)
        aid == stringOrEmpty(a.doc_id)
        bid == stringOrEmpty(b.doc_id)
        an == Number(Str(aid))
        bn == Number(Str(bid))
    IN  IF da # <<>> /\ db # <<>> THEN StrLess(db, da)
        ELSE IF db # <<>> THEN FALSE
        ELSE IF da # <<>> THEN TRUE
        ELSE IF ~an.nan /\ ~bn.nan THEN bn.n < an.n
        ELSE StrLess(bid, aid)

\* Array.prototype.sort is stable: a row goes before the first row it sorts before
RECURSIVE insertRow(_, _)
insertRow(r, sorted) ==
    IF sorted = <<>> THEN <<r>>
    ELSE IF sortsBefore(r, Head(sorted)) THEN <<r>> \o sorted
    ELSE <<Head(sorted)>> \o insertRow(r, Tail(sorted))

RECURSIVE sortRows(_, _)
sortRows(rows, sorted) ==
    IF rows = <<>> THEN sorted
    ELSE sortRows(Tail(rows), insertRow(Head(rows), sorted))

\* new Date(ts).toLocaleString() of a stored time stamp
toLocaleString(chars) ==
    IF isISODate(chars)
    THEN <<"1", "/", chars[10], "/", "2", "0", "2", "6">>
    ELSE <<"I", "n", "v", "a", "l", "i", "d", " ", "D", "a", "t", "e">>

\* the <tr> renderTable builds for record r
tableRow(r, st) ==
    LET doc == stringOrEmpty(r.doc_id)
        ts == getReviewedTimestamp(st, JSString(r.doc_id))
        isComplete == isRecordComplete(r)
    IN  [doc |-> doc,
         severity |-> getSeverity(r),
         resolved |-> isReviewed(st, JSString(r.doc_id)),
         checked |-> isComplete \/ isReviewed(st, JSString(r.doc_id)),
         disabled |-> isComplete,
         timestamp |-> IF Truthy(ts) THEN toLocaleString(ts.s) ELSE <<"-">>]

renderTable(rows, st) ==
    LET sortedRows == sortRows(rows, <<>>)
    IN  [i \in 1..Len(sortedRows) |-> tableRow(sortedRows[i], st)]

\* the counts updateSeverityStrip shows for the current displayRecords
updateSeverityStrip(display) ==
    IF Len(display) = 0 THEN NoStrip
    ELSE [empty |-> FALSE,
          high |-> Cardinality({i \in 1..Len(display) : getSeverity(display[i]) = "high"}),
          medium |-> Cardinality({i \in 1..Len(display) : getSeverity(display[i]) = "medium"}),
          low |-> Cardinality({i \in 1..Len(display) : getSeverity(display[i]) = "low"}),
          clean |-> Cardinality({i \in 1..Len(display) : getSeverity(display[i]) = "clean"})]

----------------------------------------------------------------------------
(* Filter pipeline.  The functions below take and return the globals and    *)
(* DOM state they touch as one record g; st is localStorage.                *)

\* a >= b and a <= b for a field value a and a non-empty date string b:
\* strings compare by code units, any other value of a becomes NaN or a
\* number against NaN and the comparison is false
GreaterEq(a, b) == a.t = "string" /\ ~StrLess(a.s, b)
LessEq(a, b) == a.t = "string" /\ ~StrLess(b, a.s)

applyCompletedRowsToggle(g, st, hide) ==
    LET notReviewed(r) == ~isReviewed(st, JSString(r.doc_id))
        rows == IF hide THEN SelectSeq(g.display, notReviewed) ELSE g.display
    IN  [g EXCEPT !.display = rows,
                  !.table = renderTable(rows, st),
                  !.badge = updateDQScoreBadge(rows),
                  !.strip = updateSeverityStrip(rows)]

\* the predicate of the "Missing documentation" filter
matchesMissing(r, m) ==
    CASE m = "incomplete" -> getSeverity(r) # "clean"
      [] m = "complete" -> getSeverity(r) = "clean"
      [] m = "vfc" -> ~Truthy(r.vfc_status)
      [] m = "funding" -> ~Truthy(r.funding_source)
      [] m = "race" -> ~Truthy(r.race)
      [] m = "ethnicity" -> ~Truthy(r.ethnicity)
      [] m = "contact" -> ~Truthy(r.email) \/ ~Truthy(r.mobile)
      [] OTHER -> TRUE

\* the predicate of the age filter: const age = Number(r.age) || 0
matchesAge(r, ageValue) ==
    LET age == IF Number(r.age).nan THEN 0 ELSE Number(r.age).n
    IN  CASE ageValue = "above18" -> age > 18
          [] ageValue = "belowEqual18" -> age <= 18
          [] OTHER -> TRUE

\* autoRunAI that starts a timer and leaves a pending one
autoRunAI_noClear(g) == [g EXCEPT !.timer = g.timer + 1]

\* autoRunAI: clear a pending timer and start a new one
autoRunAI(g) ==
    LET cleared == 0    \* clearTimeout(aiTimer): a pending timer is cancelled
    IN  [g EXCEPT !.timer = cleared + 1]

applyAllFiltersRealtime(g, st, m, ageValue, hide) ==
    LET keepMissing(r) == matchesMissing(r, m)
        keepAge(r) == matchesAge(r, ageValue)
        rows1 == IF m # "all" THEN SelectSeq(g.filtered, keepMissing) ELSE g.filtered
        rows2 == IF ageValue # "all" THEN SelectSeq(rows1, keepAge) ELSE rows1
        g1 == applyCompletedRowsToggle([g EXCEPT !.display = rows2], st, hide)
        g2 == IF Len(g1.display) = 0
              THEN [g1 EXCEPT !.badge = updateDQScoreBadge(<<>>)]
              ELSE autoRunAI(g1)
    IN  [g2 EXCEPT !.strip = updateSeverityStrip(g2.display)]

\* showAIPlaceholder
showAIPlaceholder(g) ==
    [g EXCEPT !.report = "placeholder", !.strip = updateSeverityStrip(g.display)]

applyDateFilters(g, st, all, from, to, m, ageValue, hide) ==
    IF from = <<>> \/ to = <<>>
    THEN showAIPlaceholder([g EXCEPT !.filtered = <<>>,
                                     !.display = <<>>,
                                     !.table = renderTable(<<>>, st)])
    ELSE LET inRange(r) == GreaterEq(r.administered_date, from)
                           /\ LessEq(r.administered_date, to)
             g1 == [g EXCEPT !.filtered = SelectSeq(all, inRange)]
         IN  autoRunAI(applyAllFiltersRealtime(g1, st, m, ageValue, hide))

\* the globals and DOM state as one record, and back
globals ==
    [filtered |-> filteredRecords, display |-> displayRecords, table |-> tableRows,
     badge |-> badge, strip |-> strip, report |-> aiReport, timer |-> aiTimer]

setGlobals(g) ==
    /\ filteredRecords' = g.filtered
    /\ displayRecords' = g.display
    /\ tableRows' = g.table
    /\ badge' = g.badge
    /\ strip' = g.strip
    /\ aiReport' = g.report
    /\ aiTimer' = g.timer

----------------------------------------------------------------------------
(* Classification of one record *)

InitClassify ==
    /\ rec \in RecordDomain
    /\ out = NoResult
    /\ ScoreIdle /\ LedgerIdle /\ UiIdle /\ CallIdle

\* the classification functions are called on rec; none of them writes anything
classifyRecord ==
    /\ out' = [called |-> TRUE,
               severity |-> getSeverity(rec),
               readiness |-> computeReadiness(rec),
               complete |-> isCompleteRecord(rec),
               issues |-> evaluateRecordSeverity(rec)]
    /\ UNCHANGED <<rec, scoreVars, ledgerVars, uiVars, callVars>>

NextClassify == classifyRecord

SpecClassify == InitClassify /\ [][NextClassify]_vars

----------------------------------------------------------------------------
(* Scoring of one record set *)

InitScore ==
    /\ records \in RecordSets
    /\ score = NoScore
    /\ ClassifyIdle /\ LedgerIdle /\ UiIdle /\ CallIdle

callComputeDataQualityScore ==
    /\ score' = [called |-> TRUE, value |-> computeDataQualityScore(records)]
    /\ UNCHANGED <<records, classifyVars, callVars, ledgerVars, uiVars>>

callUpdateDQScoreBadge ==
    /\ badge' = updateDQScoreBadge(records)
    /\ UNCHANGED <<scoreVars, classifyVars, callVars, ledgerVars, allRecords,
                   filteredRecords, displayRecords, fromDate, toDate,
                   filterMissing, filterAge, hideReviewed, tableRows, strip,
                   aiReport, aiTimer, panel>>

\* updateSeverityStrip reads the global displayRecords: called with the
\* record set on display
callUpdateSeverityStrip ==
    /\ displayRecords' = records
    /\ strip' = updateSeverityStrip(records)
    /\ UNCHANGED <<scoreVars, classifyVars, callVars, ledgerVars, allRecords,
                   filteredRecords, fromDate, toDate, filterMissing, filterAge,
                   hideReviewed, tableRows, badge, aiReport, aiTimer, panel>>

NextScore ==
    \/ callComputeDataQualityScore
    \/ callUpdateDQScoreBadge
    \/ callUpdateSeverityStrip

SpecScore == InitScore /\ [][NextScore]_vars

----------------------------------------------------------------------------
(* The review ledger called directly, starting from an empty store *)

InitLedger == LedgerIdle /\ ClassifyIdle /\ ScoreIdle /\ UiIdle /\ CallIdle

\* what one setReviewed(docId, val) call does to the store and the history
ledgerWrite(docId, val) ==
    /\ storage' = setReviewed(storage, docId, val, clock)
    /\ prevCall' = lastCall
    /\ lastCall' = [called |-> TRUE, docId |-> docId, val |-> val, at |-> clock]
    /\ lastSet' = [lastSet EXCEPT ![docId] = val]

callSetReviewed ==
    \E docId \in DocIds, val \in BOOLEAN :
        /\ ledgerWrite(docId, val)
        /\ UNCHANGED <<clock, classifyVars, callVars, scoreVars, uiVars>>

tick ==
    /\ clock < MaxClock
    /\ clock' = clock + 1
    /\ UNCHANGED <<storage, lastCall, prevCall, lastSet, classifyVars, callVars, scoreVars, uiVars>>

NextLedger == callSetReviewed \/ tick

SpecLedger == InitLedger /\ [][NextLedger]_vars

----------------------------------------------------------------------------
(* The dashboard: data loaded, then user events *)

\* the data sets immunization_data.json may hold
RecordA == BaseRecord
RecordNoLot ==
    [BaseRecord EXCEPT !.doc_id = Str(DocB), !.administered_date = Day(2),
                       !.lot_number = Undefined, !.age = Num(10)]
RecordNoRace ==
    [BaseRecord EXCEPT !.doc_id = Str(DocC), !.administered_date = Day(2),
                       !.race = Str(<<>>)]
RecordNoVfc ==
    [BaseRecord EXCEPT !.doc_id = Str(DocB), !.administered_date = Day(2),
                       !.vfc_status = Undefined, !.age = Undefined]
RecordNoDate ==
    [BaseRecord EXCEPT !.doc_id = Str(DocC), !.administered_date = Undefined,
                       !.race = Null, !.mobile = Str(<<" ">>)]

Datasets == { <<RecordA, RecordNoLot, RecordNoRace>>,
              <<RecordA, RecordNoVfc, RecordNoDate>> }

\* localStorage outlives the page: what an earlier session may have left
InitialStores == {EmptyStorage, setReviewed(EmptyStorage, DocA, TRUE, 1)}

\* what the user leaves in #fromDate and #toDate: empty, or the later day
DateInputs == {<<>>, Day(2).s}
\* the options of #filterMissing and #filterAge the user picks in the model
MissingOptions == {"all", "incomplete", "contact"}
AgeOptions == {"all", "above18"}

\* the state when the fetch handler has stored the data and rendered the
\* still empty table, before a date range is applied
Init ==
    /\ allRecords \in Datasets
    /\ filteredRecords = allRecords
    /\ displayRecords = <<>>
    /\ fromDate = <<>>
    /\ toDate = <<>>
    /\ filterMissing = "all"
    /\ filterAge = "all"
    /\ hideReviewed = FALSE
    /\ tableRows = <<>>
    /\ badge = updateDQScoreBadge(<<>>)
    /\ strip = NoStrip
    /\ aiReport = "placeholder"
    /\ aiTimer = 0
    /\ panel = NoPanel
    /\ storage \in InitialStores
    /\ clock = 1
    /\ lastCall = NoCall
    /\ prevCall = NoCall
    /\ lastSet = [d \in DocIds |-> FALSE]
    /\ ClassifyIdle /\ ScoreIdle /\ CallIdle

history == <<lastCall, prevCall, lastSet>>

\* change of the date range that keeps the filter result in allRecords
changeDates_filtersInPlace ==
    \E from \in DateInputs, to \in DateInputs :
        /\ <<from, to>> # <<fromDate, toDate>>
        /\ fromDate' = from
        /\ toDate' = to
        /\ LET g == applyDateFilters(globals, storage, allRecords, from, to,
                                     filterMissing, filterAge, hideReviewed)
           IN  setGlobals(g) /\ allRecords' = g.filtered
        /\ UNCHANGED <<filterMissing, filterAge, hideReviewed, panel,
                       storage, clock, history, classifyVars, callVars, scoreVars>>

\* change of #fromDate / #toDate / #quickRange: applyDateFilters
changeDates ==
    \E from \in DateInputs, to \in DateInputs :
        /\ <<from, to>> # <<fromDate, toDate>>
        /\ fromDate' = from
        /\ toDate' = to
        /\ setGlobals(applyDateFilters(globals, storage, allRecords, from, to,
                                       filterMissing, filterAge, hideReviewed))
        /\ UNCHANGED <<allRecords, filterMissing, filterAge, hideReviewed, panel,
                       storage, clock, history, classifyVars, callVars, scoreVars>>

\* change of #filterMissing restarts the pipeline: applyDateFilters
changeFilterMissing ==
    \E m \in MissingOptions :
        /\ m # filterMissing
        /\ filterMissing' = m
        /\ setGlobals(applyDateFilters(globals, storage, allRecords, fromDate,
                                       toDate, m, filterAge, hideReviewed))
        /\ UNCHANGED <<allRecords, fromDate, toDate, filterAge, hideReviewed, panel,
                       storage, clock, history, classifyVars, callVars, scoreVars>>

\* change of #filterAge: applyAllFiltersRealtime
changeFilterAge ==
    \E a \in AgeOptions :
        /\ a # filterAge
        /\ filterAge' = a
        /\ setGlobals(applyAllFiltersRealtime(globals, storage, filterMissing, a,
                                              hideReviewed))
        /\ UNCHANGED <<allRecords, fromDate, toDate, filterMissing, hideReviewed,
                       panel, storage, clock, history, classifyVars, callVars, scoreVars>>

\* change of #toggleCompletedRows: the listener of wireUI runs
\* applyCompletedRowsToggle, then the one of wireRealtimeFilters runs
\* applyAllFiltersRealtime
changeHideReviewed ==
    /\ hideReviewed' = ~hideReviewed
    /\ setGlobals(applyAllFiltersRealtime(
                      applyCompletedRowsToggle(globals, storage, ~hideReviewed),
                      storage, filterMissing, filterAge, ~hideReviewed))
    /\ UNCHANGED <<allRecords, fromDate, toDate, filterMissing, filterAge, panel,
                   storage, clock, history, classifyVars, callVars, scoreVars>>

\* change of a .resolvedToggle checkbox of the table; a disabled checkbox
\* takes no input
changeResolvedToggle ==
    \E i \in 1..Len(tableRows) :
        /\ ~tableRows[i].disabled
        /\ LET doc == tableRows[i].doc
               val == ~tableRows[i].checked
               st == setReviewed(storage, doc, val, clock)
           IN  /\ storage' = st
               /\ setGlobals(applyCompletedRowsToggle(globals, st, hideReviewed))
        /\ UNCHANGED <<allRecords, fromDate, toDate, filterMissing, filterAge,
                       hideReviewed, panel, clock, history, classifyVars, callVars, scoreVars>>

\* records.find((r) => r.doc_id === doc), <<>> when there is none
RECURSIVE find(_, _)
find(rows, doc) ==
    IF rows = <<>> THEN <<>>
    ELSE IF Head(rows).doc_id = Str(doc) THEN <<Head(rows)>>
    ELSE find(Tail(rows), doc)

\* click on the doc link of a table row: openRecordPanel, which closes the
\* panel when it shows that record already
clickDocLink ==
    \E i \in 1..Len(tableRows) :
        LET doc == tableRows[i].doc
            found == IF find(filteredRecords, doc) # <<>>
                     THEN find(filteredRecords, doc)
                     ELSE find(allRecords, doc)
        IN  /\ found # <<>>
            /\ panel' = IF panel.open /\ panel.docId = found[1].doc_id
                        THEN NoPanel
                        ELSE [open |-> TRUE, docId |-> found[1].doc_id,
                              button |-> ~isRecordComplete(found[1])]
            /\ UNCHANGED <<allRecords, filteredRecords, displayRecords, fromDate,
                           toDate, filterMissing, filterAge, hideReviewed, tableRows,
                           badge, strip, aiReport, aiTimer, storage, clock, history,
                           classifyVars, callVars, scoreVars>>

\* the first row of the table whose checkbox carries doc, 0 when there is none
rowOf(rows, doc) ==
    IF \E i \in 1..Len(rows) : rows[i].doc = doc
    THEN CHOOSE i \in 1..Len(rows) :
            rows[i].doc = doc /\ \A j \in 1..(i - 1) : rows[j].doc # doc
    ELSE 0

\* click on #toggleResolvedBtn, which exists only for a record with issues
clickToggleResolvedBtn ==
    /\ panel.open
    /\ panel.button
    /\ LET doc == JSString(panel.docId)
           next == ~isReviewed(storage, doc)
           st == setReviewed(storage, doc, next, clock)
           ts == getReviewedTimestamp(st, doc)
           i == rowOf(tableRows, stringOrEmpty(panel.docId))
       IN  /\ storage' = st
           /\ tableRows' =
                 IF i = 0 THEN tableRows
                 ELSE [tableRows EXCEPT
                         ![i].timestamp = IF Truthy(ts) THEN toLocaleString(ts.s)
                                          ELSE <<"-">>,
                         ![i].resolved = next,
                         ![i].checked = next]
    /\ panel' = NoPanel
    /\ UNCHANGED <<allRecords, filteredRecords, displayRecords, fromDate, toDate,
                   filterMissing, filterAge, hideReviewed, badge, strip, aiReport,
                   aiTimer, clock, history, classifyVars, callVars, scoreVars>>

\* click on #closePanelBtn
closeRecordPanel ==
    /\ panel.open
    /\ panel' = NoPanel
    /\ UNCHANGED <<allRecords, filteredRecords, displayRecords, fromDate, toDate,
                   filterMissing, filterAge, hideReviewed, tableRows, badge, strip,
                   aiReport, aiTimer, storage, clock, history, classifyVars, callVars,
                   scoreVars>>

\* the timer started by autoRunAI fires
aiTimerFires ==
    /\ aiTimer > 0
    /\ aiTimer' = aiTimer - 1
    /\ IF Len(displayRecords) = 0
       THEN /\ aiReport' = "placeholder"
            /\ strip' = updateSeverityStrip(displayRecords)
            /\ badge' = badge
       ELSE /\ aiReport' = "summary"
            /\ badge' = updateDQScoreBadge(displayRecords)
            /\ strip' = updateSeverityStrip(displayRecords)
    /\ UNCHANGED <<allRecords, filteredRecords, displayRecords, fromDate, toDate,
                   filterMissing, filterAge, hideReviewed, tableRows, panel,
                   storage, clock, history, classifyVars, callVars, scoreVars>>

\* time passes
clockTick ==
    /\ clock < MaxClock
    /\ clock' = clock + 1
    /\ UNCHANGED <<storage, history, uiVars, classifyVars, callVars, scoreVars>>

Next ==
    \/ changeDates
    \/ changeFilterMissing
    \/ changeFilterAge
    \/ changeHideReviewed
    \/ changeResolvedToggle
    \/ clickDocLink
    \/ clickToggleResolvedBtn
    \/ closeRecordPanel
    \/ aiTimerFires
    \/ clockTick

Spec == Init /\ [][Next]_vars

----------------------------------------------------------------------------
(* Lot numbers: normalisation and the near-typo check of                    *)
(* buildVaccineLotTableRows                                                 *)

LowerCase == <<"a", "b", "c", "d", "e", "f", "g", "h", "i", "j", "k", "l", "m",
               "n", "o", "p", "q", "r", "s", "t", "u", "v", "w", "x", "y", "z">>
UpperCase == <<"A", "B", "C", "D", "E", "F", "G", "H", "I", "J", "K", "L", "M",
               "N", "O", "P", "Q", "R", "S", "T", "U", "V", "W", "X", "Y", "Z">>

toUpperCase(chars) ==
    [i \in 1..Len(chars) |->
        IF \E k \in 1..26 : LowerCase[k] = chars[i]
        THEN UpperCase[CHOOSE k \in 1..26 : LowerCase[k] = chars[i]]
        ELSE chars[i]]

\* the characters /[^A-Z0-9]/ leaves
IsUpperAlnum(c) == IsDigit(c) \/ \E k \in 1..26 : UpperCase[k] = c
NotSpace(c) == ~IsSpace(c)

\* normLot of a string: upper case, trimmed, white space and every other
\* character that is not a capital letter or a digit removed
normLot(chars) ==
    SelectSeq(SelectSeq(trim(toUpperCase(chars)), NotSpace), IsUpperAlnum)

\* soften: x.replace(/0/g, "O")
soften(x) == [i \in 1..Len(x) |-> IF x[i] = "0" THEN "O" ELSE x[i]]

\* the number of positions at which two strings of one length differ
mismatches(a, b) == Cardinality({i \in 1..Len(a) : a[i] # b[i]})

\* the loop for lengths that differ by one: FALSE on the second edit
RECURSIVE alignLoop(_, _, _, _, _)
alignLoop(a, b, i, j, edits) ==
    IF ~(i <= Len(a) /\ j <= Len(b)) THEN TRUE
    ELSE IF a[i] = b[j] THEN alignLoop(a, b, i + 1, j + 1, edits)
    ELSE IF edits + 1 > 1 THEN FALSE
    ELSE IF Len(a) > Len(b) THEN alignLoop(a, b, i + 1, j, edits + 1)
    ELSE alignLoop(a, b, i, j + 1, edits + 1)

isNearTypo(aRaw, bRaw) ==
    LET a == normLot(aRaw)
        b == normLot(bRaw)
    IN  IF a = <<>> \/ b = <<>> THEN FALSE
        ELSE IF a = b THEN FALSE
        ELSE IF soften(a) = soften(b) THEN TRUE
        ELSE IF Len(a) = Len(b) THEN mismatches(a, b) = 1
        ELSE IF Len(a) - Len(b) \in {1, -1} THEN alignLoop(a, b, 1, 1, 0)
        ELSE FALSE

\* the lot strings handed to isNearTypo: up to MaxLot characters, among them
\* a lower-case letter, the digit 0, the letter O and a dash
LotChars == {"A", "b", "O", "0", "-"}
LotStrings == UNION { [1..k -> LotChars] : k \in 0..MaxLot }

InitTypo ==
    /\ call \in LotStrings \X LotStrings
    /\ ret = NoReturn
    /\ ClassifyIdle /\ ScoreIdle /\ LedgerIdle /\ UiIdle

callIsNearTypo ==
    /\ ret' = [called |-> TRUE, value |-> isNearTypo(call[1], call[2])]
    /\ UNCHANGED <<call, classifyVars, scoreVars, ledgerVars, uiVars>>

NextTypo == callIsNearTypo

SpecTypo == InitTypo /\ [][NextTypo]_vars

----------------------------------------------------------------------------
(* Lot usage table: buildVaccineLotTableRows.  The objects map and          *)
(* vaccineLotCounts are sequences of entries in insertion order, the order  *)
(* Object.keys gives for keys that are not integers; the counts the forEach *)
(* loop adds up one record at a time are taken over the whole set.          *)

\* the records the forEach loop does not skip
counted(recs) ==
    SelectSeq(recs, LAMBDA r : /\ Truthy(r.vaccine_name)
                               /\ Truthy(r.lot_number)
                               /\ Truthy(r.administered_date))

vaccineOf(r) == trim(JSString(r.vaccine_name))
lotOf(r) == trim(JSString(r.lot_number))
\* the key of map: `${vaccine}||${lot}`
mapKey(r) == vaccineOf(r) \o <<"|", "|">> \o lotOf(r)

\* the members of a set of positions in increasing order
RECURSIVE ascending(_)
ascending(S) ==
    IF S = {} THEN <<>>
    ELSE LET m == CHOOSE i \in S : \A j \in S : i <= j
         IN  <<m>> \o ascending(S \ {m})

\* map, in the order its keys were created
lotMap(recs) ==
    LET valid == counted(recs)
        created == ascending({i \in 1..Len(valid) :
                                \A j \in 1..(i - 1) : mapKey(valid[j]) # mapKey(valid[i])})
        dates(key) == {JSString(valid[i].administered_date) :
                         i \in {j \in 1..Len(valid) : mapKey(valid[j]) = key}}
    IN  [k \in 1..Len(created) |->
            LET r == valid[created[k]]
                key == mapKey(r)
            IN  [vaccine |-> vaccineOf(r),
                 lot |-> lotOf(r),
                 count |-> Cardinality({i \in 1..Len(valid) : mapKey(valid[i]) = key}),
                 first |-> CHOOSE d \in dates(key) : \A e \in dates(key) : ~StrLess(e, d),
                 last |-> CHOOSE d \in dates(key) : \A e \in dates(key) : ~StrLess(d, e)]]

\* vaccineTotals[vaccine]
vaccineTotals(recs, vaccine) ==
    Cardinality({i \in 1..Len(counted(recs)) : vaccineOf(counted(recs)[i]) = vaccine})

\* vaccineLotCounts[vaccine]: its lots in the order they were added
vaccineLotCounts(recs, vaccine) ==
    LET valid == counted(recs)
        mine == {i \in 1..Len(valid) : vaccineOf(valid[i]) = vaccine}
        added == ascending({i \in mine :
                              \A j \in mine : j < i => lotOf(valid[j]) # lotOf(valid[i])})
    IN  [k \in 1..Len(added) |->
            [lot |-> lotOf(valid[added[k]]),
             count |-> Cardinality({i \in mine : lotOf(valid[i]) = lotOf(valid[added[k]])})]]

\* the dominant lot of a vaccine: the first of its lots with the highest count
dominantLot(recs, vaccine) ==
    LET lots == vaccineLotCounts(recs, vaccine)
        best == CHOOSE i \in 1..Len(lots) :
                    /\ \A j \in 1..Len(lots) : lots[j].count <= lots[i].count
                    /\ \A j \in 1..(i - 1) : lots[j].count < lots[i].count
    IN  IF Len(lots) = 0 THEN [lot |-> <<>>, count |-> 0] ELSE lots[best]

\* .sort((a, b) => b.count - a.count), stable
RECURSIVE insertByCount(_, _)
insertByCount(row, sorted) ==
    IF sorted = <<>> THEN <<row>>
    ELSE IF row.count > Head(sorted).count THEN <<row>> \o sorted
    ELSE <<Head(sorted)>> \o insertByCount(row, Tail(sorted))

RECURSIVE sortByCount(_, _)
sortByCount(rows, sorted) ==
    IF rows = <<>> THEN sorted
    ELSE sortByCount(Tail(rows), insertByCount(Head(rows), sorted))

\* the <tr> of one entry of map; share < 0.02 is 50 * count < vaccineTotal
lotRow(row, recs) ==
    LET vaccineTotal == vaccineTotals(recs, row.vaccine)
        dominant == dominantLot(recs, row.vaccine)
        isOneOff == row.count = 1
        isRare == row.count <= 3 \/ 50 * row.count < vaccineTotal
        looksLikeTypo == /\ row.lot # dominant.lot
                         /\ dominant.count >= 10
                         /\ isNearTypo(row.lot, dominant.lot)
    IN  [vaccine |-> row.vaccine, lot |-> row.lot, count |-> row.count,
         first |-> row.first, last |-> row.last,
         rowClass |-> IF looksLikeTypo THEN "lot-typo"
                      ELSE IF isOneOff THEN "lot-one-off"
                      ELSE IF isRare THEN "lot-rare"
                      ELSE ""]

\* the rows of the table; no rows stands for the "No lot data available" row
buildVaccineLotTableRows(recs) ==
    IF Len(recs) = 0 THEN <<>>
    ELSE LET sorted == sortByCount(lotMap(recs), <<>>)
         IN  [i \in 1..Len(sorted) |-> lotRow(sorted[i], recs)]

\* administrations: n records of one vaccine and lot
administrations(vaccine, lot, date, n) ==
    [i \in 1..n |-> [vaccine_name |-> vaccine, lot_number |-> lot,
                     administered_date |-> date]]

VaccineV == Str(<<"v">>)
VaccineW == Str(<<"v", "v">>)
LotAOB == Str(<<"A", "O", "B">>)
\* other lots: one mismatch from AOB, one mismatch once 0 is read as O, two
\* mismatches, and AOB entered with a dash and in lower case
OtherLots == { Str(<<"A", "O", "A">>), Str(<<"A", "0", "A">>),
               Str(<<"A", "b", "A">>), Str(<<"a", "-", "O", "B", "A">>) }
DominantCounts == {3, 9, 10, MaxDominant}
OtherCounts == {1, 3, 4}

\* the record sets handed to buildVaccineLotTableRows: the lot AOB of
\* vaccine v, then possibly records without a lot, then possibly another lot
\* of v or of another vaccine
UsageSets ==
    { administrations(VaccineV, LotAOB, Day(1), n) \o skipped \o other :
        n \in DominantCounts,
        skipped \in {<<>>, administrations(VaccineV, Undefined, Day(1), 1)},
        other \in {<<>>} \cup
                  { administrations(vaccine, lot, Day(2), m) :
                      vaccine \in {VaccineV, VaccineW}, lot \in OtherLots,
                      m \in OtherCounts } }

\* records for the grouping: one lot on two days and with blanks around it,
\* a lot that is blank, a record without a lot, and two (vaccine, lot) pairs
\* whose names meet in "||"
GroupingCatalog ==
    { [vaccine_name |-> VaccineV, lot_number |-> LotAOB, administered_date |-> Day(2)],
      [vaccine_name |-> VaccineV, lot_number |-> LotAOB, administered_date |-> Day(1)],
      [vaccine_name |-> Str(<<" ", "v">>), lot_number |-> Str(<<"A", "O", "B", " ">>),
       administered_date |-> Day(3)],
      [vaccine_name |-> VaccineV, lot_number |-> Str(<<" ">>), administered_date |-> Day(1)],
      [vaccine_name |-> VaccineV, lot_number |-> Undefined, administered_date |-> Day(1)],
      [vaccine_name |-> Str(<<"v", "|", "|">>), lot_number |-> Str(<<"x">>),
       administered_date |-> Day(1)],
      [vaccine_name |-> VaccineV, lot_number |-> Str(<<"|", "|", "x">>),
       administered_date |-> Day(2)] }

\* every sequence of up to MaxUsage of them, the empty record set included
GroupingSets == UNION { [1..n -> GroupingCatalog] : n \in 0..MaxUsage }

\* the early return of buildVaccineLotTableRows: the one row
\* "No lot data available"
noLotData(recs) == Len(recs) = 0

InitLots ==
    /\ call \in UsageSets \cup GroupingSets
    /\ ret = NoReturn
    /\ ClassifyIdle /\ ScoreIdle /\ LedgerIdle /\ UiIdle

callBuildVaccineLotTableRows ==
    /\ ret' = [called |-> TRUE, noData |-> noLotData(call),
               value |-> buildVaccineLotTableRows(call)]
    /\ UNCHANGED <<call, classifyVars, scoreVars, ledgerVars, uiVars>>

NextLots == callBuildVaccineLotTableRows

SpecLots == InitLots /\ [][NextLots]_vars

----------------------------------------------------------------------------
(* Chart aggregations: the stacked bar of missing fields by date            *)
(* (renderStackedBarEChart) and the eligibility waterfall                   *)
(* (renderVfcEligibilityWaterfallEChart)                                    *)

\* x.split("T")[0]: the characters before the first T
RECURSIVE beforeT(_)
beforeT(chars) ==
    IF chars = <<>> \/ Head(chars) = "T" THEN <<>>
    ELSE <<Head(chars)>> \o beforeT(Tail(chars))

NoBucket(date) ==
    [date |-> date, vfc |-> 0, funding |-> 0, race |-> 0, ethnicity |-> 0, contact |-> 0]

\* the position of the bucket of a date in byDate, 0 when there is none
bucketOf(byDate, date) ==
    IF \E i \in 1..Len(byDate) : byDate[i].date = date
    THEN CHOOSE i \in 1..Len(byDate) : byDate[i].date = date
    ELSE 0

\* the body of records.forEach for a record whose date is truthy
countMissingFields(byDate, date, r) ==
    LET created == IF bucketOf(byDate, date) = 0 THEN Append(byDate, NoBucket(date))
                   ELSE byDate
        k == bucketOf(created, date)
        add(missingField) == IF missingField THEN 1 ELSE 0
    IN  [created EXCEPT
            ![k].vfc = @ + add(~Truthy(r.vfc_status)),
            ![k].funding = @ + add(~Truthy(r.funding_source)),
            ![k].race = @ + add(~Truthy(r.race)),
            ![k].ethnicity = @ + add(~Truthy(r.ethnicity)),
            ![k].contact = @ + add(~Truthy(r.email) \/ ~Truthy(r.mobile))]

\* records.forEach: r.administered_date?.split("T")[0] is undefined for
\* undefined and null, and a TypeError for any other value that is not a
\* string, which ends the function
RECURSIVE bucketRecords(_, _)
bucketRecords(recs, byDate) ==
    IF recs = <<>> THEN [threw |-> FALSE, byDate |-> byDate]
    ELSE LET r == Head(recs)
             d == r.administered_date
         IN  IF d = Undefined \/ d = Null THEN bucketRecords(Tail(recs), byDate)
             ELSE IF d.t # "string" THEN [threw |-> TRUE, byDate |-> byDate]
             ELSE IF beforeT(d.s) = <<>> THEN bucketRecords(Tail(recs), byDate)
             ELSE bucketRecords(Tail(recs), countMissingFields(byDate, beforeT(d.s), r))

\* Object.keys(byDate).sort(): the buckets by ascending date string
RECURSIVE insertByDate(_, _)
insertByDate(b, sorted) ==
    IF sorted = <<>> THEN <<b>>
    ELSE IF StrLess(b.date, Head(sorted).date) THEN <<b>> \o sorted
    ELSE <<Head(sorted)>> \o insertByDate(b, Tail(sorted))

RECURSIVE sortByDate(_, _)
sortByDate(buckets, sorted) ==
    IF buckets = <<>> THEN sorted
    ELSE sortByDate(Tail(buckets), insertByDate(Head(buckets), sorted))

\* the data of the stacked bar chart: one bucket per date on the axis
bucketMissingByDate(recs) ==
    LET done == bucketRecords(recs, <<>>)
    IN  IF done.threw THEN [threw |-> TRUE, buckets |-> <<>>]
        ELSE [threw |-> FALSE, buckets |-> sortByDate(done.byDate, <<>>)]

\* the records handed to the charts
TimeOfDay == <<"T", "1", "0", ":", "0", "0", ":", "0", "0", "Z">>
ChartCatalog ==
    { BaseRecord,
      [BaseRecord EXCEPT !.administered_date = Str(Day(1).s \o TimeOfDay),
                         !.vfc_status = Undefined],
      [BaseRecord EXCEPT !.administered_date = Day(2), !.vfc_status = Str(<<"v">>),
                         !.email = Undefined, !.mobile = Undefined],
      [BaseRecord EXCEPT !.administered_date = Undefined, !.race = Undefined],
      [BaseRecord EXCEPT !.administered_date = Str(<<>>), !.vfc_status = Null],
      [BaseRecord EXCEPT !.administered_date = Str(<<"x">>), !.funding_source = Undefined],
      [BaseRecord EXCEPT !.administered_date = Day(2), !.vfc_status = Str(<<" ">>),
                         !.mobile = Str(<<" ">>)],
      [BaseRecord EXCEPT !.administered_date = Num(20240105), !.vfc_status = Num(0)],
      [BaseRecord EXCEPT !.vfc_status = Str(<<" ", "x">>), !.ethnicity = Null],
      [BaseRecord EXCEPT !.vfc_status = Str(<<"v">>)] }

ChartSets == UNION { [1..k -> ChartCatalog] : k \in 0..MaxSet }

InitCharts ==
    /\ call \in ChartSets
    /\ ret = NoReturn
    /\ ClassifyIdle /\ ScoreIdle /\ LedgerIdle /\ UiIdle

callBucketMissingByDate ==
    /\ ret' = [called |-> TRUE, chart |-> "StackedBar", value |-> bucketMissingByDate(call)]
    /\ UNCHANGED <<call, classifyVars, scoreVars, ledgerVars, uiVars>>

\* the category of the records without eligibility
MissingEligibility ==
    <<"M", "i", "s", "s", "i", "n", "g", " ", "e", "l", "i", "g", "i", "b", "i",
      "l", "i", "t", "y">>

\* norm(v) = String(v ?? "").trim(), and the key it is counted under
norm(v) == trim(stringOrEmpty(v))
eligibilityKey(r) ==
    IF norm(r.vfc_status) = <<>> THEN MissingEligibility ELSE norm(r.vfc_status)

\* counts.set(key, (counts.get(key) || 0) + 1), counts in insertion order
RECURSIVE countEligibility(_, _)
countEligibility(recs, counts) ==
    IF recs = <<>> THEN counts
    ELSE LET key == eligibilityKey(Head(recs))
             k == IF \E i \in 1..Len(counts) : counts[i].label = key
                  THEN CHOOSE i \in 1..Len(counts) : counts[i].label = key
                  ELSE 0
         IN  countEligibility(Tail(recs),
                 IF k = 0 THEN Append(counts, [label |-> key, value |-> 1])
                 ELSE [counts EXCEPT ![k].value = @ + 1])

\* the comparator of types without its alphabetical tie-break
typeBefore_noTieBreak(a, b) ==
    IF (a.label = MissingEligibility) # (b.label = MissingEligibility)
    THEN a.label = MissingEligibility
    ELSE b.value < a.value

\* the comparator of types is negative: the missing category first, then the
\* larger count, then a[0].localeCompare(b[0]), which on the codes of the
\* model is the order of their characters
typeBefore(a, b) ==
    IF (a.label = MissingEligibility) # (b.label = MissingEligibility)
    THEN a.label = MissingEligibility
    ELSE IF b.value # a.value THEN b.value < a.value
    ELSE StrLess(a.label, b.label)

RECURSIVE insertType(_, _)
insertType(t, sorted) ==
    IF sorted = <<>> THEN <<t>>
    ELSE IF typeBefore(t, Head(sorted)) THEN <<t>> \o sorted
    ELSE <<Head(sorted)>> \o insertType(t, Tail(sorted))

RECURSIVE sortTypes(_, _)
sortTypes(counts, sorted) ==
    IF counts = <<>> THEN sorted
    ELSE sortTypes(Tail(counts), insertType(Head(counts), sorted))

\* counts.get("Missing eligibility") || 0
missingEligibilityCount(counts) ==
    IF \E i \in 1..Len(counts) : counts[i].label = MissingEligibility
    THEN counts[CHOOSE i \in 1..Len(counts) : counts[i].label = MissingEligibility].value
    ELSE 0

\* the data of the waterfall: total, the ordered categories, documented total
bucketMissingByEligibilityType(recs) ==
    LET counts == countEligibility(recs, <<>>)
    IN  [total |-> Len(recs),
         types |-> sortTypes(counts, <<>>),
         missingCount |-> missingEligibilityCount(counts),
         documentedTotal |-> Len(recs) - missingEligibilityCount(counts)]

callBucketMissingByEligibilityType ==
    /\ ret' = [called |-> TRUE, chart |-> "VFCWaterfall",
               value |-> bucketMissingByEligibilityType(call)]
    /\ UNCHANGED <<call, classifyVars, scoreVars, ledgerVars, uiVars>>

NextCharts == callBucketMissingByDate \/ callBucketMissingByEligibilityType

SpecCharts == InitCharts /\ [][NextCharts]_vars

----------------------------------------------------------------------------
(* The ledger and the table when localStorage may be unavailable: every     *)
(* access to it then raises, and no function of the ledger catches.         *)
(* call.available tells whether localStorage works.                         *)

\* isReviewed / getReviewedTimestamp / setReviewed raise
ledgerRaises(available) == ~available

\* renderTable raises at the first row, in isReviewed(r.doc_id)
renderTableRaises(available, rows) == Len(rows) > 0 /\ ledgerRaises(available)

\* applyCompletedRowsToggle raises in the filter or in renderTable
applyCompletedRowsToggleRaises(available, rows) ==
    Len(rows) > 0 /\ ledgerRaises(available)

InitOutage ==
    /\ call \in [records : {<<>>, <<RecordNoRace>>, <<RecordNoVfc>>} \cup Datasets,
                 docId : {DocA, DocB},
                 val : BOOLEAN,
                 hide : BOOLEAN,
                 available : BOOLEAN]
    /\ ret = NoReturn
    /\ storage \in InitialStores
    /\ clock = 1
    /\ lastCall = NoCall /\ prevCall = NoCall
    /\ lastSet = [d \in DocIds |-> FALSE]
    /\ ClassifyIdle /\ ScoreIdle /\ UiIdle

outageCallIsReviewed ==
    /\ ret' = IF ledgerRaises(call.available)
              THEN [called |-> TRUE, fn |-> "isReviewed", raised |-> TRUE, value |-> FALSE]
              ELSE [called |-> TRUE, fn |-> "isReviewed", raised |-> FALSE,
                    value |-> isReviewed(storage, call.docId)]
    /\ UNCHANGED <<call, classifyVars, scoreVars, ledgerVars, uiVars>>

\* the first setItem raises before anything is stored
outageCallSetReviewed ==
    /\ ret' = [called |-> TRUE, fn |-> "setReviewed",
               raised |-> ledgerRaises(call.available), value |-> FALSE]
    /\ storage' = IF ledgerRaises(call.available) THEN storage
                  ELSE setReviewed(storage, call.docId, call.val, clock)
    /\ UNCHANGED <<call, clock, history, classifyVars, scoreVars, uiVars>>

\* renderTable(call.records): the table body is emptied before the loop and
\* filled after it
outageCallRenderTable ==
    /\ ret' = [called |-> TRUE, fn |-> "renderTable",
               raised |-> renderTableRaises(call.available, call.records),
               value |-> FALSE]
    /\ tableRows' = IF renderTableRaises(call.available, call.records) THEN <<>>
                    ELSE renderTable(call.records, storage)
    /\ UNCHANGED <<call, classifyVars, scoreVars, ledgerVars, allRecords,
                   filteredRecords, displayRecords, fromDate, toDate, filterMissing,
                   filterAge, hideReviewed, badge, strip, aiReport, aiTimer, panel>>

\* applyCompletedRowsToggle with call.records on display: when it raises in
\* the filter nothing is assigned, when it raises in renderTable
\* displayRecords is assigned and the table left empty; the badge and the
\* severity strip are updated only after renderTable returned
outageCallApplyCompletedRowsToggle ==
    LET rows == call.records
        raised == applyCompletedRowsToggleRaises(call.available, rows)
        g == applyCompletedRowsToggle([globals EXCEPT !.display = rows], storage, call.hide)
    IN  /\ ret' = [called |-> TRUE, fn |-> "applyCompletedRowsToggle",
                   raised |-> raised, value |-> FALSE]
        /\ hideReviewed' = call.hide
        /\ displayRecords' = IF raised /\ call.hide THEN displayRecords
                             ELSE IF raised THEN rows ELSE g.display
        /\ tableRows' = IF raised /\ call.hide THEN tableRows
                        ELSE IF raised THEN <<>> ELSE g.table
        /\ badge' = IF raised THEN badge ELSE g.badge
        /\ strip' = IF raised THEN strip ELSE g.strip
        /\ UNCHANGED <<call, classifyVars, scoreVars, ledgerVars, allRecords,
                       filteredRecords, fromDate, toDate, filterMissing, filterAge,
                       aiReport, aiTimer, panel>>

NextOutage ==
    \/ outageCallIsReviewed
    \/ outageCallSetReviewed
    \/ outageCallRenderTable
    \/ outageCallApplyCompletedRowsToggle

SpecOutage == InitOutage /\ [][NextOutage]_vars

----------------------------------------------------------------------------
(* CSV export: csvEscape and downloadCSV.  The file is a sequence of        *)
(* characters; "\n" is the line feed.                                       *)

Quote == "\""
LineFeed == "\n"

\* s.replaceAll('"', '""') without the doubling
doubleQuotes_single(chars) == chars

\* s.replaceAll('"', '""')
RECURSIVE doubleQuotes(_)
doubleQuotes(chars) ==
    IF chars = <<>> THEN <<>>
    ELSE IF Head(chars) = Quote THEN <<Quote, Quote>> \o doubleQuotes(Tail(chars))
    ELSE <<Head(chars)>> \o doubleQuotes(Tail(chars))

csvEscape(v) ==
    LET str == stringOrEmpty(v)
    IN  IF \E i \in 1..Len(str) : str[i] \in {",", Quote, LineFeed}
        THEN <<Quote>> \o doubleQuotes(str) \o <<Quote>>
        ELSE str

\* parts.join(sep)
RECURSIVE join(_, _)
join(parts, sep) ==
    IF parts = <<>> THEN <<>>
    ELSE IF Len(parts) = 1 THEN parts[1]
    ELSE parts[1] \o <<sep>> \o join(Tail(parts), sep)

headers ==
    << <<"d", "o", "c", "_", "i", "d">>,
       <<"p", "a", "t", "i", "e", "n", "t", "_", "i", "d">>,
       <<"s", "t", "a", "t", "u", "s">>,
       <<"a", "g", "e">>,
       <<"r", "a", "c", "e">>,
       <<"e", "t", "h", "n", "i", "c", "i", "t", "y">>,
       <<"m", "o", "b", "i", "l", "e">>,
       <<"e", "m", "a", "i", "l">>,
       <<"a", "d", "m", "i", "n", "i", "s", "t", "e", "r", "e", "d", "_", "d", "a", "t", "e">>,
       <<"v", "a", "c", "c", "i", "n", "e", "_", "n", "a", "m", "e">>,
       <<"v", "f", "c", "_", "s", "t", "a", "t", "u", "s">>,
       <<"f", "u", "n", "d", "i", "n", "g", "_", "s", "o", "u", "r", "c", "e">>,
       <<"q", "u", "a", "n", "t", "i", "t", "y">>,
       <<"u", "n", "i", "t", "s">>,
       <<"n", "d", "c">>,
       <<"l", "o", "t", "_", "n", "u", "m", "b", "e", "r">>,
       <<"e", "x", "p", "i", "r", "a", "t", "i", "o", "n", "_", "d", "a", "t", "e">>,
       <<"r", "e", "a", "d", "i", "n", "e", "s", "s", "_", "s", "c", "o", "r", "e">>,
       <<"r", "e", "v", "i", "e", "w", "e", "d">>,
       <<"r", "e", "v", "i", "e", "w", "e", "d", "_", "t", "i", "m", "e", "s", "t", "a", "m", "p">> >>

\* the record fields exported, in column order; a field a record does not
\* have is undefined
ExportedFields ==
    << "doc_id", "patient_id", "status", "age", "race", "ethnicity",
       "mobile", "email", "administered_date", "vaccine_name", "vfc_status",
       "funding_source", "quantity", "units", "ndc", "lot_number",
       "expiration_date" >>

fieldOf(r, f) == IF f \in DOMAIN r THEN r[f] ELSE Undefined

\* the line of one record
csvLine(r, st) ==
    LET ts == getReviewedTimestamp(st, JSString(r.doc_id))
        vals == [k \in 1..Len(ExportedFields) |-> fieldOf(r, ExportedFields[k])]
                  \o << Num(computeReadiness(r)),
                        Str(IF isReviewed(st, JSString(r.doc_id)) THEN <<"1">> ELSE <<"0">>),
                        IF Truthy(ts) THEN ts ELSE Str(<<>>) >>
    IN  join([k \in 1..Len(vals) |-> csvEscape(vals[k])], ",")

\* downloadCSV: the text of the file, nothing when there are no rows
downloadCSV(rows, st) ==
    IF Len(rows) = 0 THEN [exported |-> FALSE, text |-> <<>>]
    ELSE [exported |-> TRUE,
          text |-> join(<<join(headers, ",")>>
                          \o [i \in 1..Len(rows) |-> csvLine(rows[i], st)], LineFeed)]

\* the records of the export: doc ids and fields with commas, quotes and
\* line feeds, and fields that are null or numbers
CsvCatalog ==
    { BaseRecord,
      [BaseRecord EXCEPT !.doc_id = Str(<<"a", ",", "b">>), !.administered_date = Day(2)],
      [BaseRecord EXCEPT !.doc_id = Str(<<Quote>>), !.race = Str(<<",", Quote, Quote>>)],
      [BaseRecord EXCEPT !.doc_id = Str(<<"a", LineFeed, Quote, ",">>),
                         !.administered_date = Day(2), !.lot_number = Undefined],
      [BaseRecord EXCEPT !.doc_id = Null, !.administered_date = Day(2),
                         !.email = Str(<<LineFeed>>)],
      [BaseRecord EXCEPT !.doc_id = Num(7), !.expiration_date = Day(1),
                         !.administered_date = Day(2)],
      [BaseRecord EXCEPT !.doc_id = Str(<<" ", Quote, "a", Quote>>), !.ndc = Str(<<>>)] }

CsvSets == UNION { [1..k -> CsvCatalog] : k \in 0..MaxCsv }

\* the state after applyDateFilters with a date range entered, for a store
\* in which some of the records were reviewed
InitCsv ==
    /\ allRecords \in CsvSets
    /\ fromDate \in {Day(1).s, Day(2).s}
    /\ toDate = Day(2).s
    /\ storage \in {EmptyStorage} \cup
                   { setReviewed(EmptyStorage, JSString(allRecords[i].doc_id), TRUE, 1) :
                       i \in 1..Len(allRecords) }
    /\ LET g == applyDateFilters(
                    [filtered |-> <<>>, display |-> <<>>, table |-> <<>>,
                     badge |-> updateDQScoreBadge(<<>>), strip |-> NoStrip,
                     report |-> "placeholder", timer |-> 0],
                    storage, allRecords, fromDate, toDate, "all", "all", FALSE)
       IN  /\ filteredRecords = g.filtered
           /\ displayRecords = g.display
           /\ tableRows = g.table
           /\ badge = g.badge
           /\ strip = g.strip
           /\ aiReport = g.report
           /\ aiTimer = g.timer
    /\ filterMissing = "all" /\ filterAge = "all" /\ hideReviewed = FALSE
    /\ panel = NoPanel
    /\ clock = 1
    /\ lastCall = NoCall /\ prevCall = NoCall
    /\ lastSet = [d \in DocIds |-> FALSE]
    /\ ClassifyIdle /\ ScoreIdle /\ CallIdle

\* click on the export button
clickDownloadCSV ==
    /\ ret' = [called |-> TRUE, value |-> downloadCSV(filteredRecords, storage)]
    /\ UNCHANGED <<call, classifyVars, scoreVars, ledgerVars, uiVars>>

NextCsv == clickDownloadCSV

SpecCsv == InitCsv /\ [][NextCsv]_vars

----------------------------------------------------------------------------
(* The record store under filtering, reviewing and exporting: the dashboard *)
(* events that read allRecords or what was filtered from it, and the export *)

InitStore ==
    /\ Init
    /\ storage = EmptyStorage

NextStore ==
    \/ changeDates
    \/ changeFilterMissing
    \/ changeFilterAge
    \/ changeHideReviewed
    \/ changeResolvedToggle
    \/ aiTimerFires
    \/ clickDownloadCSV

SpecStore == InitStore /\ [][NextStore]_vars

\* the same events with the timer of autoRunAI firing once its 300 ms are over
SpecDebounce == SpecStore /\ WF_vars(aiTimerFires)

----------------------------------------------------------------------------
(* Claims about the classification engine (SpecClassify) *)

\* the tier the precedence rules give when "missing" is the missingness
\* predicate of the data model: undefined, null, or empty/whitespace-only
tierByRules(r) ==
    IF isEmpty(r.vfc_status) \/ isEmpty(r.funding_source) THEN "high"
    ELSE IF isEmpty(r.race) \/ isEmpty(r.ethnicity) THEN "medium"
    ELSE IF isEmpty(r.mobile) \/ isEmpty(r.email) THEN "low"
    ELSE "clean"

hasIssue(issues, field) == \E i \in 1..Len(issues) : issues[i].field = field

\* C1: getSeverity returns the tier of the first matching rule: high if
\* vfc_status or funding_source is missing, else medium if race or ethnicity
\* is missing, else low if mobile or email is missing, else clean.
C1_SeverityByPrecedence ==
    out.called => out.severity = tierByRules(rec)

\* C2: every function treats a field as missing exactly when isEmpty does:
\* evaluateRecordSeverity reports an issue for a field, isCompleteRecord and
\* computeReadiness count a weighted field, and the quality score counts a
\* field, iff the field is undefined, null or an empty/whitespace-only string.
C2_OneMissingnessPredicate ==
    out.called =>
        /\ \A f \in SeverityFields : hasIssue(out.issues, f) <=> isEmpty(rec[f])
        /\ \A f \in SeverityFields : missing(rec, f) <=> isEmpty(rec[f])
        /\ out.complete <=> (\A f \in WeightedFields : ~isEmpty(rec[f]))
        /\ (out.severity = "clean") <=> (\A f \in SeverityFields : ~isEmpty(rec[f]))

\* C3: for every record computeReadiness returns an integer in 0..100.
C3_ReadinessInRange ==
    out.called => out.readiness \in 0..100

\* a record whose penalties add up to more than 100
C3_Witness ==
    /\ out.called
    /\ dateConflict(rec)
    /\ subtractWeights(rec, 1, 100) < 15
    /\ out.readiness = 0

\* C4: a record missing all seven weighted fields has readiness 0, and a
\* record missing none of them has readiness 100.
C4_ReadinessExtremes ==
    out.called =>
        /\ (\A f \in WeightedFields : isEmpty(rec[f])) => out.readiness = 0
        /\ (\A f \in WeightedFields : ~isEmpty(rec[f])) => out.readiness = 100

----------------------------------------------------------------------------
(* Claims about the review ledger (SpecLedger) *)

\* C7: for every id, isReviewed(id) is the value of the last setReviewed on
\* that id (false if none) and a time stamp is stored iff isReviewed(id).
C7_LedgerInvariant ==
    \A d \in DocIds :
        /\ isReviewed(storage, d) = lastSet[d]
        /\ (getReviewedTimestamp(storage, d) # Null) <=> isReviewed(storage, d)

\* C8: after setReviewed(id, true) twice in succession the record is
\* reviewed and the stored time stamp is the one written by the second call.
C8_SecondTimestampKept ==
    (/\ prevCall.called /\ lastCall.called
     /\ prevCall.docId = lastCall.docId
     /\ prevCall.val /\ lastCall.val)
    => /\ isReviewed(storage, lastCall.docId)
       /\ getReviewedTimestamp(storage, lastCall.docId) = Str(toISOString(lastCall.at))

\* two calls at different clock readings: the first time stamp is gone
C8_Witness ==
    /\ prevCall.called /\ lastCall.called
    /\ prevCall.docId = lastCall.docId
    /\ prevCall.val /\ lastCall.val
    /\ prevCall.at < lastCall.at
    /\ getReviewedTimestamp(storage, lastCall.docId) # Str(toISOString(prevCall.at))
    /\ isReviewed(storage, lastCall.docId)

\* C28: setReviewed(id, b) changes the ledger entry of id only: for every
\* other id, ids ending in ":ts" included, isReviewed and
\* getReviewedTimestamp are the same before and after the call.
C28_OnlyOwnEntry ==
    [][\A d \in DocIds \ {lastCall'.docId} :
           /\ isReviewed(storage', d) = isReviewed(storage, d)
           /\ getReviewedTimestamp(storage', d) = getReviewedTimestamp(storage, d)]_vars

----------------------------------------------------------------------------
(* Claims about the data quality score (SpecScore) *)

\* the number of records of data missing, by isEmpty, one of the fields
missingCount(data, fields) ==
    Cardinality({i \in 1..Len(data) : \E f \in fields : isEmpty(data[i][f])})

\* C9: for a non-empty set of n records the score is
\* round(100 - (28 vfc + 24 funding + 14 race + 14 ethnicity + 20 contact)/n)
\* clamped to 0..100, with contact counted once per record.
C9_QualityScoreFormula ==
    (score.called /\ Len(records) > 0) =>
        LET n == Len(records)
            total == 28 * missingCount(records, {"vfc_status"})
                     + 24 * missingCount(records, {"funding_source"})
                     + 14 * missingCount(records, {"race"})
                     + 14 * missingCount(records, {"ethnicity"})
                     + 20 * missingCount(records, {"email", "mobile"})
        IN  score.value = Max(0, Min(100, roundDiv(100 * n - total, n)))

\* C10: the score of an empty record set is a sentinel that is no valid
\* score: it is not a value in 0..100.
C10_EmptySetSentinel ==
    (score.called /\ Len(records) = 0) => score.value \notin 0..100

----------------------------------------------------------------------------
(* Claims about review toggling (Spec) *)

\* what the ledger holds for a record: its flag and its time stamp
ledgerEntry(st, r) ==
    <<getItem(st, reviewedKey(JSString(r.doc_id))),
      getItem(st, reviewedTsKey(JSString(r.doc_id)))>>

\* C6: a record with all seven weighted fields present (isComplete) is
\* exempt from manual toggling: no user interaction changes its ledger
\* entry; and a record that is not complete stays toggleable: its table
\* checkbox is never disabled and its panel always has the review button.
C6_CompleteExemptFromToggling ==
    [][\A k \in 1..Len(allRecords) :
          LET r == allRecords[k]
          IN  /\ isCompleteRecord(r) => ledgerEntry(storage', r) = ledgerEntry(storage, r)
              /\ ~isCompleteRecord(r) =>
                    /\ \A i \in 1..Len(tableRows') :
                          tableRows'[i].doc = stringOrEmpty(r.doc_id)
                              => ~tableRows'[i].disabled
                    /\ (panel'.open /\ panel'.docId = r.doc_id) => panel'.button
      ]_vars

----------------------------------------------------------------------------
(* Claims about the tier counts (SpecScore, Spec) *)

\* the number of records of a set whose tier by the precedence rules is t
tierCount(data, t) == Cardinality({i \in 1..Len(data) : tierByRules(data[i]) = t})

\* C11: the severity strip shows, for each tier, the number of records of
\* the current displayRecords whose tier by the precedence rules is that
\* tier, so the four counts sum to the number of records on display.
C11_StripCountsTiers ==
    /\ strip.high = tierCount(displayRecords, "high")
    /\ strip.medium = tierCount(displayRecords, "medium")
    /\ strip.low = tierCount(displayRecords, "low")
    /\ strip.clean = tierCount(displayRecords, "clean")
    /\ strip.high + strip.medium + strip.low + strip.clean = Len(displayRecords)

----------------------------------------------------------------------------
(* Claims about the near-typo check (SpecTypo) *)

\* a string with its k-th character left out
without(x, k) == [i \in 1..(Len(x) - 1) |-> IF i < k THEN x[i] ELSE x[i + 1]]

\* one substitution, insertion or deletion of a single character turns a
\* into b
oneEdit(a, b) ==
    \/ Len(a) = Len(b) /\ mismatches(a, b) = 1
    \/ Len(a) = Len(b) + 1 /\ \E k \in 1..Len(a) : without(a, k) = b
    \/ Len(b) = Len(a) + 1 /\ \E k \in 1..Len(b) : without(b, k) = a

\* C13: for two lots that are not empty after normLot and not the same
\* once 0 and O are taken as one character, isNearTypo accepts exactly
\* when, under that equivalence, they have one length and exactly one
\* mismatched character, or their lengths differ by one and a single
\* insertion or deletion aligns them; it rejects every pair that needs two
\* or more edits.
C13_NearIsOneEdit ==
    ret.called =>
        LET a == soften(normLot(call[1]))
            b == soften(normLot(call[2]))
        IN  (a # <<>> /\ b # <<>> /\ a # b) => (ret.value <=> oneEdit(a, b))

----------------------------------------------------------------------------
(* Claims about the lot usage table (SpecLots) *)

RECURSIVE sumCounts(_)
sumCounts(rows) == IF rows = <<>> THEN 0 ELSE Head(rows).count + sumCounts(Tail(rows))

\* the rows of the table for one vaccine, most used lot first
rowsOfVaccine(rows, vaccine) == SelectSeq(rows, LAMBDA row : row.vaccine = vaccine)

\* two lots are near: one edit apart after normLot, 0 and O being one character
nearLots(a, b) == oneEdit(soften(normLot(a)), soften(normLot(b)))

\* the one flag a (vaccine, lot) group gets: typo before oneOff before rare
flagOf(row, rows) ==
    LET mine == rowsOfVaccine(rows, row.vaccine)
        dominant == Head(mine)
        typo == /\ row.lot # dominant.lot
                /\ dominant.count >= 10
                /\ nearLots(row.lot, dominant.lot)
        oneOff == row.count = 1
        rare == row.count <= 3 \/ 50 * row.count < sumCounts(mine)
    IN  IF typo THEN "lot-typo"
        ELSE IF oneOff THEN "lot-one-off"
        ELSE IF rare THEN "lot-rare"
        ELSE ""

\* C12: every (vaccine, lot) row carries exactly one flag: typo if the lot
\* differs from the vaccine's dominant lot, the dominant lot has count >= 10
\* and the two lots are near; else oneOff if count = 1; else rare if
\* count <= 3 or count / vaccineTotal < 2%; else none.
C12_LotFlags ==
    ret.called =>
        \A i \in 1..Len(ret.value) : ret.value[i].rowClass = flagOf(ret.value[i], ret.value)

----------------------------------------------------------------------------
(* Claims about the chart aggregations (SpecCharts) *)

StackedBarDone == ret.called /\ ret.chart = "StackedBar"
WaterfallDone == ret.called /\ ret.chart = "VFCWaterfall"

\* the date portion of an administered_date string
datePortion(r) == beforeT(r.administered_date.s)

\* the records of a set that have an administered_date, as positions
dated(recs) == {i \in 1..Len(recs) : ~isEmpty(recs[i].administered_date)}

\* the records of a bucket, and those of them for which a field is missing
inBucket(recs, date) == {i \in dated(recs) : datePortion(recs[i]) = date}
missingIn(recs, date, f) == {i \in inBucket(recs, date) : isEmpty(recs[i][f])}

\* C14: every record with an administered_date is counted in the bucket of
\* its date portion; in each bucket the vfc, funding, race and ethnicity
\* counters are the numbers of the bucket's records missing that field, the
\* contact counter counts a record once if email or mobile is missing, and
\* no counter exceeds the number of records of the bucket.
C14_BucketsCountMissing ==
    (StackedBarDone /\ ~ret.value.threw) =>
        LET buckets == ret.value.buckets
        IN  /\ {buckets[k].date : k \in 1..Len(buckets)}
                  = {datePortion(call[i]) : i \in dated(call)}
            /\ \A k \in 1..Len(buckets) :
                  LET b == buckets[k]
                      n == Cardinality(inBucket(call, b.date))
                  IN  /\ b.vfc = Cardinality(missingIn(call, b.date, "vfc_status"))
                      /\ b.funding = Cardinality(missingIn(call, b.date, "funding_source"))
                      /\ b.race = Cardinality(missingIn(call, b.date, "race"))
                      /\ b.ethnicity = Cardinality(missingIn(call, b.date, "ethnicity"))
                      /\ b.contact = Cardinality(missingIn(call, b.date, "email")
                                                 \cup missingIn(call, b.date, "mobile"))
                      /\ \A c \in {b.vfc, b.funding, b.race, b.ethnicity, b.contact} : c <= n

\* C15: every bucket key is a calendar date, and a record whose
\* administered_date is absent, empty or not a date creates no bucket and
\* increments no counter: the buckets are those of the other records alone.
C15_NoBucketWithoutDate ==
    StackedBarDone =>
        LET withDate == SelectSeq(call, LAMBDA r : /\ r.administered_date.t = "string"
                                                   /\ isISODate(r.administered_date.s))
        IN  /\ ~ret.value.threw
            /\ \A k \in 1..Len(ret.value.buckets) : isISODate(ret.value.buckets[k].date)
            /\ ret.value = bucketMissingByDate(withDate)

\* the category a record falls in: its trimmed vfc_status, or the category
\* of the records whose vfc_status is missing
categoryOf(r) ==
    IF isEmpty(r.vfc_status) THEN MissingEligibility ELSE trim(JSString(r.vfc_status))

RECURSIVE sumValues(_)
sumValues(types) == IF types = <<>> THEN 0 ELSE Head(types).value + sumValues(Tail(types))

\* C16: the records are grouped by trimmed vfc_status, missing values in the
\* category "Missing eligibility"; that category, when present, is first,
\* the others follow by descending count, ties in alphabetical order; the
\* counts sum to the number of records and the documented total is the
\* total less the number of records without eligibility.
C16_EligibilityCategories ==
    WaterfallDone =>
        LET types == ret.value.types
            withoutEligibility == Cardinality({i \in 1..Len(call) : isEmpty(call[i].vfc_status)})
        IN  /\ {types[k].label : k \in 1..Len(types)}
                  = {categoryOf(call[i]) : i \in 1..Len(call)}
            /\ \A k \in 1..Len(types) :
                  types[k].value
                      = Cardinality({i \in 1..Len(call) : categoryOf(call[i]) = types[k].label})
            /\ \A k \in 2..Len(types) : types[k].label # MissingEligibility
            /\ \A j, k \in 1..Len(types) :
                  (j < k /\ types[j].label # MissingEligibility) =>
                      \/ types[j].value > types[k].value
                      \/ /\ types[j].value = types[k].value
                         /\ StrLess(types[j].label, types[k].label)
            /\ sumValues(types) = Len(call)
            /\ ret.value.total = Len(call)
            /\ ret.value.documentedTotal = ret.value.total - withoutEligibility

\* the waterfall of three records: one without eligibility and two codes
\* with one record each, entered in reverse alphabetical order
C16_Witness ==
    /\ WaterfallDone
    /\ Len(call) = 3
    /\ categoryOf(call[1]) = <<"x">>
    /\ categoryOf(call[2]) = <<"v">>
    /\ categoryOf(call[3]) = MissingEligibility
    /\ ret.value.types[1].label = MissingEligibility
    /\ ret.value.types[2].label = <<"v">>
    /\ ret.value.documentedTotal = 2

----------------------------------------------------------------------------
(* Claims about the ledger when localStorage is unavailable (SpecOutage) *)

\* C17: with the backing store unavailable no call raises: isReviewed
\* answers "not reviewed", setReviewed does nothing, the table is rendered
\* with one row per record, and the tier counts and the quality score of
\* the records on display are shown.
C17_LedgerFailuresDoNotBlock ==
    (ret.called /\ ~call.available) =>
        /\ ~ret.raised
        /\ ret.fn = "isReviewed" => ~ret.value
        /\ ret.fn \in {"renderTable", "applyCompletedRowsToggle"} =>
              Len(tableRows) = Len(call.records)
        /\ ret.fn = "applyCompletedRowsToggle" =>
              /\ strip = updateSeverityStrip(call.records)
              /\ badge = updateDQScoreBadge(call.records)

----------------------------------------------------------------------------
(* Claims about hiding reviewed records (Spec) *)

\* C18: while "Hide records already reviewed" is on, displayRecords holds no
\* record whose isReviewed is true, whatever review toggles and filter
\* changes came before.
C18_ReviewedHidden ==
    hideReviewed =>
        \A i \in 1..Len(displayRecords) :
            ~isReviewed(storage, JSString(displayRecords[i].doc_id))

----------------------------------------------------------------------------
(* Claims about the CSV export (SpecCsv) *)

\* a character of the file stands outside quotes: an even number of quote
\* characters comes before it
outsideQuotes(text, i) ==
    Cardinality({j \in 1..(i - 1) : text[j] = Quote}) % 2 = 0

\* the positions in lo..hi of a separator outside quotes, and hi + 1
cuts(text, lo, hi, sep) ==
    ascending({i \in lo..hi : text[i] = sep /\ outsideQuotes(text, i)} \cup {hi + 1})

\* the pieces of text[lo..hi] between the separators outside quotes, as
\* pairs of first and last position
pieces(text, lo, hi, sep) ==
    LET c == cuts(text, lo, hi, sep)
    IN  [k \in 1..Len(c) |-> <<IF k = 1 THEN lo ELSE c[k - 1] + 1, c[k] - 1>>]

\* "" inside a quoted field stands for one quote
RECURSIVE undouble(_)
undouble(chars) ==
    IF chars = <<>> THEN <<>>
    ELSE IF Head(chars) = Quote /\ Len(chars) >= 2 /\ chars[2] = Quote
         THEN <<Quote>> \o undouble(Tail(Tail(chars)))
    ELSE <<Head(chars)>> \o undouble(Tail(chars))

\* standard CSV unquoting of one field
unquote(field) ==
    IF Len(field) >= 2 /\ field[1] = Quote /\ field[Len(field)] = Quote
    THEN undouble(SubSeq(field, 2, Len(field) - 1))
    ELSE field

\* a CSV file read back: its rows, each the sequence of its unquoted fields
parseCSV(text) ==
    LET rows == pieces(text, 1, Len(text), LineFeed)
    IN  [k \in 1..Len(rows) |->
            LET fields == pieces(text, rows[k][1], rows[k][2], ",")
            IN  [m \in 1..Len(fields) |->
                    unquote(SubSeq(text, fields[m][1], fields[m][2]))]]

\* the records an export holds: those of allRecords in the date range
inDateRange(r) ==
    GreaterEq(r.administered_date, fromDate) /\ LessEq(r.administered_date, toDate)

RECURSIVE missingWeight(_, _)
missingWeight(r, i) ==
    IF i > Len(READINESS_WEIGHTS) THEN 0
    ELSE (IF isEmpty(r[READINESS_WEIGHTS[i].field])
          THEN READINESS_WEIGHTS[i].weight ELSE 0) + missingWeight(r, i + 1)

\* total of the weights from position i on
RECURSIVE totalWeight(_)
totalWeight(i) ==
    IF i > Len(READINESS_WEIGHTS) THEN 0
    ELSE READINESS_WEIGHTS[i].weight + totalWeight(i + 1)

\* both dates are present and the expiration date sorts before the
\* administration date as text
expiresBeforeAdministered(r) ==
    /\ ~isEmpty(r.administered_date)
    /\ ~isEmpty(r.expiration_date)
    /\ StrLess(JSString(r.expiration_date), JSString(r.administered_date))

\* C20: computeReadiness(record) is 100 minus the weights of the missing
\* weighted fields, minus 15 when both dates are present and the expiration
\* date is before the administration date as strings, clamped to 0..100; the
\* seven weights are 25, 25, 10, 15, 15, 5, 5 and sum to 100.
C20_ReadinessFormula ==
    /\ [f \in WeightedFields |->
          (CHOOSE i \in 1..Len(READINESS_WEIGHTS) : READINESS_WEIGHTS[i].field = f)]
         \in [WeightedFields -> 1..7]
    /\ <<READINESS_WEIGHTS[1].weight, READINESS_WEIGHTS[2].weight,
         READINESS_WEIGHTS[3].weight, READINESS_WEIGHTS[4].weight,
         READINESS_WEIGHTS[5].weight, READINESS_WEIGHTS[6].weight,
         READINESS_WEIGHTS[7].weight>> = <<25, 25, 10, 15, 15, 5, 5>>
    /\ totalWeight(1) = 100
    /\ out.called =>
          out.readiness =
             Max(0, Min(100, 100 - missingWeight(rec, 1)
                                 - (IF expiresBeforeAdministered(rec) THEN 15 ELSE 0)))

\* rec with the order fields vaccine_name, quantity and units filled in
withOrderFields(r) ==
    [f \in DOMAIN r \cup {"vaccine_name", "quantity", "units"} |->
        IF f \in DOMAIN r THEN r[f] ELSE Present]

\* the tier a severity function's result names, whatever its spelling
tierNamed(result) ==
    CASE result \in {"high", "HIGH"} -> "high"
      [] result \in {"medium", "MEDIUM"} -> "medium"
      [] result \in {"low", "LOW"} -> "low"
      [] OTHER -> "clean"

\* C21: one severity policy: getSeverity (used for the row highlight, the
\* strip counts and the attention filter), getRecordSeverity and
\* riskClassFromRecord assign the same tier to every record.
C21_OneSeverityPolicy ==
    out.called =>
        /\ tierNamed(getRecordSeverity(rec)) = out.severity
        /\ tierNamed(riskClassFromRecord(withOrderFields(rec))) = out.severity

\* the severity the data model gives a missing field
severityOfField(f) ==
    CASE f \in {"vfc_status", "funding_source"} -> "high"
      [] f \in {"race", "ethnicity"} -> "medium"
      [] OTHER -> "low"

\* the highest severity occurring in a list of issues; clean for no issue
highestSeverity(issues) ==
    IF \E i \in 1..Len(issues) : issues[i].severity = "high" THEN "high"
    ELSE IF \E i \in 1..Len(issues) : issues[i].severity = "medium" THEN "medium"
    ELSE IF \E i \in 1..Len(issues) : issues[i].severity = "low" THEN "low"
    ELSE "clean"

\* C22: evaluateRecordSeverity returns exactly one issue, of the field's
\* severity, for every missing field among vfc_status, funding_source, race,
\* ethnicity, mobile and email, and none for the others; the list is empty
\* exactly when getSeverity returns clean, and otherwise getSeverity returns
\* the highest severity in the list.
C22_AllIssuesReturned ==
    out.called =>
        /\ \A f \in SeverityFields :
              Cardinality({i \in 1..Len(out.issues) : out.issues[i].field = f})
                 = (IF isEmpty(rec[f]) THEN 1 ELSE 0)
        /\ \A i \in 1..Len(out.issues) :
              /\ out.issues[i].field \in SeverityFields
              /\ out.issues[i].severity = severityOfField(out.issues[i].field)
        /\ (out.issues = <<>>) <=> (out.severity = "clean")
        /\ out.severity = highestSeverity(out.issues)

\* the records of a set that have a vaccine name, a lot number and an
\* administration date, as positions
contributing(recs) ==
    {i \in 1..Len(recs) : /\ ~isEmpty(recs[i].vaccine_name)
                          /\ ~isEmpty(recs[i].lot_number)
                          /\ ~isEmpty(recs[i].administered_date)}

\* the contributing records of one (trimmed vaccine, trimmed lot) group
groupMembers(recs, vaccine, lot) ==
    {i \in contributing(recs) : vaccineOf(recs[i]) = vaccine /\ lotOf(recs[i]) = lot}

\* C23: the lot usage rows are the (trimmed vaccine, trimmed lot) groups of the
\* records that have vaccine_name, lot_number and administered_date, one row
\* per group: count is the number of the group's records, first and last are
\* its least and greatest administered_date (first <= last), the counts sum
\* to the number of contributing records, rows come in non-increasing count
\* order, and an empty input gives the "No lot data available" row.
C23_LotUsageGroups ==
    ret.called =>
        LET rows == ret.value
            members(k) == groupMembers(call, rows[k].vaccine, rows[k].lot)
            dates(k) == {JSString(call[i].administered_date) : i \in members(k)}
        IN  /\ \A i \in contributing(call) :
                  Cardinality({k \in 1..Len(rows) :
                                  /\ rows[k].vaccine = vaccineOf(call[i])
                                  /\ rows[k].lot = lotOf(call[i])}) = 1
            /\ \A k \in 1..Len(rows) :
                  /\ members(k) # {}
                  /\ rows[k].count = Cardinality(members(k))
                  /\ rows[k].first \in dates(k)
                  /\ rows[k].last \in dates(k)
                  /\ \A d \in dates(k) : ~StrLess(d, rows[k].first) /\ ~StrLess(rows[k].last, d)
                  /\ ~StrLess(rows[k].last, rows[k].first)
            /\ sumCounts(rows) = Cardinality(contributing(call))
            /\ \A k \in 1..(Len(rows) - 1) : rows[k].count >= rows[k + 1].count
            /\ ret.noData <=> (Len(call) = 0)

\* C25: after every operation the Data Quality badge shows "--" if
\* displayRecords is empty, and otherwise the quality score of the current
\* displayRecords.
C25_BadgeFollowsDisplay ==
    badge = (IF Len(displayRecords) = 0 THEN <<"-", "-">>
             ELSE NatToChars(computeDataQualityScore(displayRecords)))

\* C26: autoRunAI debounces: at most one of its timers is pending at any
\* time; however many calls came before it fires, the timer fires once, after
\* the last call, and leaves none pending; the run reads displayRecords as
\* they are when it fires, shows the placeholder if they are empty and the
\* summary with their score otherwise; a pending timer does fire.
C26_Debounce ==
    /\ [](aiTimer \in {0, 1})
    /\ [][aiTimer' < aiTimer =>
            /\ aiTimer' = 0
            /\ displayRecords' = displayRecords
            /\ aiReport' = (IF Len(displayRecords) = 0 THEN "placeholder" ELSE "summary")
            /\ Len(displayRecords) # 0 =>
                  badge' = NatToChars(computeDataQualityScore(displayRecords))]_vars
    /\ (aiTimer = 1) ~> (aiTimer = 0)

\* the timer set by a date change, which calls autoRunAI twice, has fired and
\* shown the summary of the records displayed
C26_Witness ==
    /\ aiTimer = 0
    /\ aiReport = "summary"
    /\ fromDate # <<>> /\ toDate # <<>>
    /\ Len(displayRecords) > 0
    /\ badge = NatToChars(computeDataQualityScore(displayRecords))

\* rows is a sub-collection of of: its records are records of `of`, each
\* as often at most as `of` holds it
subCollection(rows, of) ==
    \A i \in 1..Len(rows) :
        Cardinality({j \in 1..Len(rows) : rows[j] = rows[i]})
           <= Cardinality({j \in 1..Len(of) : of[j] = rows[i]})

\* C27: in every state after load displayRecords is a sub-collection of
\* filteredRecords and filteredRecords is one of allRecords; when the from or
\* the to date is empty, filteredRecords and displayRecords are both empty.
C27_PipelineContainment ==
    /\ subCollection(displayRecords, filteredRecords)
    /\ subCollection(filteredRecords, allRecords)
    /\ (fromDate = <<>> \/ toDate = <<>>) =>
          (filteredRecords = <<>> /\ displayRecords = <<>>)

----------------------------------------------------------------------------
(* Claims about the record store (SpecStore) *)

\* C24: the raw record collection is read-only after load: no date-filter
\* change, missing/age filter change, hide-reviewed toggle, review toggle or
\* CSV export changes allRecords, so it holds the loaded records with the
\* loaded field values ever after.
C24_StoreReadOnly ==
    [][allRecords' = allRecords]_vars

\* a date range has dropped a record from the filtered set, a record has been
\* marked reviewed and hidden, and the set has been exported
C24_Witness ==
    /\ Len(filteredRecords) < Len(allRecords)
    /\ Len(displayRecords) < Len(filteredRecords)
    /\ hideReviewed
    /\ storage # EmptyStorage
    /\ ret.called
    /\ allRecords \in Datasets

\* the non-empty values a missing field may be given
SuppliedValues == {Present, Day(1), Day(2)}

\* C29: readiness is monotone in completeness: giving a missing weighted
\* field any non-empty value, the other fields unchanged, never lowers
\* computeReadiness.
C29_ReadinessMonotone ==
    out.called =>
        \A f \in WeightedFields : \A v \in SuppliedValues :
            isEmpty(rec[f]) => computeReadiness(With(rec, f, v)) >= out.readiness

\* the date ranges entered in #fromDate and #toDate
RangeDates == {Day(1).s, Day(2).s}

\* filteredRecords after applyDateFilters on a freshly loaded page
rangeFiltered(recs, from, to) ==
    applyDateFilters([filtered |-> recs, display |-> <<>>, table |-> <<>>,
                      badge |-> updateDQScoreBadge(<<>>), strip |-> NoStrip,
                      report |-> "placeholder", timer |-> 0],
                     EmptyStorage, recs, from, to, "all", "all", FALSE).filtered

\* the records of a set that the chart has put into a bucket, as positions
bucketed(recs) ==
    {i \in 1..Len(recs) : /\ recs[i].administered_date.t = "string"
                          /\ datePortion(recs[i]) # <<>>}

\* C30: the date-range filter and the date bucketing agree on a record's
\* date: a record the chart places in bucket d is kept by applyDateFilters
\* exactly when from <= d <= to, so a record administered at "dT10:00:00Z"
\* is kept when to = d.
C30_FilterAgreesWithBuckets ==
    (StackedBarDone /\ ~ret.value.threw) =>
        \A from \in RangeDates, to \in RangeDates :
            \A i \in bucketed(call) :
                LET d == datePortion(call[i])
                    kept == rangeFiltered(call, from, to)
                IN  /\ \E k \in 1..Len(ret.value.buckets) : ret.value.buckets[k].date = d
                    /\ (\E k \in 1..Len(kept) : kept[k] = call[i])
                          <=> (~StrLess(d, from) /\ ~StrLess(to, d))

=============================================================================
